---------------------------- MODULE Spec2Model ----------------------------
(***************************************************************************)
(* Data-consistency core of the fundsol donation-campaign ledger:          *)
(*   - executeWithRetry       (src/lib/db.ts)             : SpecRetry      *)
(*   - executeInTransaction   (src/lib/db.ts)             : SpecTx         *)
(*   - class Cache            (src/lib/cache.ts)          : SpecCache      *)
(*   - the donation write path and its readers                             *)
(*     (src/app/api/donations/route.ts, db-utils, ...)    : Spec           *)
(* Every specification owns a group of variables and leaves the other      *)
(* groups unchanged.                                                       *)
(***************************************************************************)
EXTENDS Integers, Sequences, FiniteSets, TLC

VARIABLES
  \* ---- executeWithRetry (src/lib/db.ts:154-172)
  rtPc,          \* position in executeWithRetry
  maxRetries,    \* the maxRetries argument
  attempt,       \* the loop variable
  lastError,     \* the lastError local
  execLog,       \* history: the outcome of every db.execute call, in order
  waits,         \* history: the delay of every setTimeout wait, in order
  rtOutcome,     \* what the caller received: a result or the thrown error
  \* ---- executeInTransaction (src/lib/db.ts:174-195)
  txPc,          \* position in executeInTransaction
  txStore,       \* rows committed to the database
  txPending,     \* rows written through tx and not yet committed
  txCallback,    \* history: how the callback ended (result or error)
  txError,       \* the error caught by the catch block
  txRollback,    \* history: the outcomes of the tx.rollback() calls
  txLog,         \* history: what console.error was handed
  txOutcome,     \* what the caller received: a result or the thrown error
  \* ---- class Cache (src/lib/cache.ts:7-119)
  cache,         \* this.cache: key -> { data, timestamp } or NoEntry
  now,           \* Date.now()
  timers,        \* the pending setTimeout callbacks of set(): the key and
                 \* the timestamp they captured, their due time and, as
                 \* history, the data their set() stored
  ticks,         \* history: how many times the clock advanced
  setTtl,        \* history: key -> the ttl its entry was stored with (0: none)
  lastGet,       \* history: what the get() call of the last step returned
                 \* (NoGet when the last step was not a get)
  fetching,      \* the getOrFetch call: its position, its arguments, what
                 \* it returned or threw and, as history, what the cache
                 \* held under its key when it was made and how often its
                 \* fetcher was invoked
  lastUpdate,    \* history: the updateCollectionItem call of the last step
                 \* and what the cache held before it (NoUpdate when the
                 \* last step was none)
  \* ---- the donation write path and its readers
  campaigns,     \* table campaigns: the ids of its rows
  users,         \* table users: rows [id, wallet_address]
  donations,     \* table donations: rows [id, campaign_id, donor_id, amount,
                 \*   transaction_signature]
  dbLock,        \* the request holding the database's write lock, or NoProc
  foreignKeys,   \* whether the connection enforces foreign keys
  donationCache, \* donationCache: key -> cached value or Absent
  campaignCache, \* campaignCache: key -> cached value or Absent
  pc,            \* request -> its position in its handler
  loc,           \* request -> its arguments and locals
  resp,          \* request -> the response it sent
  campaignRow,   \* table campaigns: id -> the slug, title, goal_amount and
                 \*   updated_at of its row
  wrNow,         \* Date.now() of the campaign writers
  \* ---- getCampaignDonationsSummary against the clock
  tsNow,         \* Date.now()
  tsTicks,       \* history: how many times the clock advanced
  tsCommits,     \* history: the commit time of every donation of the campaign
  tsInval,       \* how many deletions of the summary key are still to come
  tsEntry,       \* the donationCache entry of the campaign's summary key
  tsPc,          \* reader -> its position in getCampaignDonationsSummary
  tsRead,        \* reader -> the row its query returned
  tsLast,        \* history: what the call that returned in the last step
                 \* returned (NoSummaryRead when no call returned)
  \* ---- the slug allocators as functions
  slPc,          \* which allocator was applied ("input": none yet)
  slTitle,       \* the title argument
  slExisting,    \* the slugs of the campaigns table
  slResult,      \* the slug returned
  \* ---- the rate limiter of the middleware
  ipRequestCounts, \* client IP -> its { count, resetTime } (NoCount: none)
  rlNow,         \* Date.now()
  rlTicks,       \* history: how many times the clock advanced
  rlSeq,         \* history: client IP -> how many rate-limited requests it
                 \*   sent since its window began
  rlLast         \* history: the request answered in the last step

retryVars == <<rtPc, maxRetries, attempt, lastError, execLog, waits, rtOutcome>>

txVars == <<txPc, txStore, txPending, txCallback, txError, txRollback, txLog,
            txOutcome>>

ccVars == <<cache, now, timers, ticks, setTtl, lastGet, lastUpdate,
            fetching>>

dbVars == <<campaigns, users, donations, dbLock, foreignKeys>>
cacheVars == <<donationCache, campaignCache>>
procVars == <<pc, loc, resp>>
mainVars == <<dbVars, cacheVars, procVars>>
rowVars == <<campaignRow, wrNow>>

tsVars == <<tsNow, tsTicks, tsCommits, tsInval, tsEntry, tsPc, tsRead, tsLast>>

slVars == <<slPc, slTitle, slExisting, slResult>>

rlVars == <<ipRequestCounts, rlNow, rlTicks, rlSeq, rlLast>>

vars == <<retryVars, txVars, ccVars, mainVars, rowVars, tsVars, slVars,
          rlVars>>

\* What an action of one component leaves alone: the other components.
RetryFrame == UNCHANGED <<txVars, ccVars, mainVars, tsVars, slVars,
                           rowVars, rlVars>>
TxFrame == UNCHANGED <<retryVars, ccVars, mainVars, tsVars, slVars,
                        rowVars, rlVars>>
CacheFrame == UNCHANGED <<retryVars, txVars, mainVars, tsVars, slVars,
                           rowVars, rlVars>>
MainFrame == UNCHANGED <<retryVars, txVars, ccVars, tsVars, slVars,
                          rowVars, rlVars>>
SummaryFrame == UNCHANGED <<retryVars, txVars, ccVars, mainVars, slVars,
                             rowVars, rlVars>>
WriterFrame == UNCHANGED <<retryVars, txVars, ccVars, tsVars, slVars,
                            rlVars>>
SlugFrame == UNCHANGED <<retryVars, txVars, ccVars, mainVars, tsVars,
                          rowVars, rlVars>>

LimiterFrame == UNCHANGED <<retryVars, txVars, ccVars, mainVars, tsVars,
                             slVars, rowVars>>

Min(a, b) == IF a <= b THEN a ELSE b

RECURSIVE Pow2(_)
Pow2(n) == IF n <= 0 THEN 1 ELSE 2 * Pow2(n - 1)

(***************************************************************************)
(* executeWithRetry                                                        *)
(***************************************************************************)

\* Largest maxRetries argument the model passes.
MaxRetriesBound == 6

\* Error classes a db.execute call can raise.  The first two are transient
\* (connection, timeout), the last two permanent (constraint, syntax).
TransientKinds == {"connection", "timeout"}
PermanentKinds == {"constraint", "syntax"}
ErrorKinds == TransientKinds \cup PermanentKinds

\* JavaScript's undefined: the value of lastError before any assignment.
Undefined == [kind |-> "undefined", at |-> 0]

\* The error object raised by the db.execute call of attempt number a.
ErrorAt(kind, a) == [kind |-> kind, at |-> a]

\* The ResultSet returned by the db.execute call of attempt number a.
ResultAt(a) == [kind |-> "ok", at |-> a]

\* Off-by-one loop bound.
LoopContinuesStrict(a, n) == a < n
\* for (...; attempt <= maxRetries; ...)
LoopContinues(a, n) == a <= n

\* Backoff counted from zero.
DelayFromZero(a) == Min(100 * Pow2(a - 1), 2000)
\* const delay = Math.min(100 * Math.pow(2, attempt), 2000)
Delay(a) == Min(100 * Pow2(a), 2000)

\* if (attempt < maxRetries): only then is a wait scheduled
WaitsBeforeRetry(a, n) == a < n

\* The state of executeWithRetry while another specification runs.
RetryIdle ==
  /\ rtPc = "idle"
  /\ maxRetries = 0
  /\ attempt = 0
  /\ lastError = Undefined
  /\ execLog = << >>
  /\ waits = << >>
  /\ rtOutcome = Undefined

RetryInit ==
  /\ rtPc = "attempt"
  /\ maxRetries \in 0..MaxRetriesBound
  /\ attempt = 1
  /\ lastError = Undefined
  /\ execLog = << >>
  /\ waits = << >>
  /\ rtOutcome = Undefined

\* try { return await db.execute({ sql, args }) }
ExecuteSucceeds ==
  /\ RetryFrame
  /\ rtPc = "attempt"
  /\ LoopContinues(attempt, maxRetries)
  /\ execLog' = Append(execLog, ResultAt(attempt))
  /\ rtOutcome' = ResultAt(attempt)
  /\ rtPc' = "returned"
  /\ UNCHANGED <<maxRetries, attempt, lastError, waits>>

\* catch (error) { lastError = error; if (attempt < maxRetries) await wait }
ExecuteFails ==
  /\ RetryFrame
  /\ rtPc = "attempt"
  /\ LoopContinues(attempt, maxRetries)
  /\ \E kind \in ErrorKinds :
       /\ execLog' = Append(execLog, ErrorAt(kind, attempt))
       /\ lastError' = ErrorAt(kind, attempt)
  /\ IF WaitsBeforeRetry(attempt, maxRetries)
       THEN /\ waits' = Append(waits, Delay(attempt))
            /\ rtPc' = "backoff"
            /\ attempt' = attempt
       ELSE /\ waits' = waits
            /\ rtPc' = "attempt"
            /\ attempt' = attempt + 1
  /\ UNCHANGED <<maxRetries, rtOutcome>>

\* the setTimeout promise resolves; attempt++
BackoffElapsed ==
  /\ RetryFrame
  /\ rtPc = "backoff"
  /\ attempt' = attempt + 1
  /\ rtPc' = "attempt"
  /\ UNCHANGED <<maxRetries, lastError, execLog, waits, rtOutcome>>

\* throw lastError
ThrowLastError ==
  /\ RetryFrame
  /\ rtPc = "attempt"
  /\ ~LoopContinues(attempt, maxRetries)
  /\ rtOutcome' = lastError
  /\ rtPc' = "thrown"
  /\ UNCHANGED <<maxRetries, attempt, lastError, execLog, waits>>

RetryNext ==
  \/ ExecuteSucceeds
  \/ ExecuteFails
  \/ BackoffElapsed
  \/ ThrowLastError

\* C5: with maxRetries = n >= 1 the statement is run until its first success
\* and that result is returned; it is run at most n times; when all n
\* attempts fail the call throws after exactly the n-th attempt, and what it
\* throws is the error of that last attempt.
C5_RetryUntilFirstSuccess ==
  maxRetries >= 1 =>
    /\ Len(execLog) <= maxRetries
    /\ \A i \in 1..(Len(execLog) - 1) : execLog[i].kind # "ok"
    /\ (Len(execLog) > 0 /\ execLog[Len(execLog)].kind = "ok")
         => (rtPc = "returned" /\ rtOutcome = execLog[Len(execLog)])
    /\ rtPc = "returned"
         => (Len(execLog) > 0 /\ execLog[Len(execLog)].kind = "ok")
    /\ rtPc = "thrown"
         => /\ Len(execLog) = maxRetries
            /\ \A i \in 1..maxRetries : execLog[i].kind \in ErrorKinds
            /\ rtOutcome = execLog[maxRetries]
            /\ rtOutcome.at = maxRetries

\* C5 witness: three attempts out of three failed and the call has thrown.
C5_Witness ==
  /\ rtPc = "thrown"
  /\ maxRetries = 3
  /\ Len(execLog) = 3
  /\ execLog[1].kind # execLog[3].kind

\* C6 (as claimed): an attempt that fails with a permanent error is the last
\* attempt: no wait is scheduled after it and no further db.execute follows.
C6_PermanentErrorNotRetried ==
  \A i \in 1..Len(execLog) :
    execLog[i].kind \in PermanentKinds
      => (i = Len(execLog) /\ rtPc # "backoff")

\* C7: the k-th wait follows the k-th failed attempt, k < maxRetries, and
\* lasts min(100 * 2^k, 2000) ms; the waits never decrease and never exceed
\* 2000 ms; the last failed attempt is followed by no wait.
C7_BackoffDelays ==
  /\ \A k \in 1..Len(waits) :
       /\ k < maxRetries
       /\ execLog[k].kind \in ErrorKinds
       /\ waits[k] = (IF 100 * (2 ^ k) <= 2000 THEN 100 * (2 ^ k) ELSE 2000)
       /\ waits[k] <= 2000
       /\ (k > 1 => waits[k - 1] <= waits[k])
  /\ Len(waits) <= Len(execLog)
  /\ (rtPc = "backoff") => Len(waits) = Len(execLog)
  /\ (rtPc = "thrown" /\ maxRetries >= 1) => Len(waits) = maxRetries - 1

\* C7 witness: five waits were made, the last one at the 2000 ms cap, and the
\* sixth attempt failed without a wait after it.
C7_Witness ==
  /\ rtPc = "thrown"
  /\ Len(waits) = 5
  /\ waits[1] = 200
  /\ waits[4] = 1600
  /\ waits[5] = 2000

(***************************************************************************)
(* executeInTransaction                                                    *)
(***************************************************************************)

\* Rows the callback may write through tx, and the values it may return.
TxRows == {"user", "donation"}
TxResults == {"r1", "r2"}

\* Messages of the errors the collaborators may raise.
CallbackMessages == {"Campaign not found", "SQLITE_CONSTRAINT"}
CommitMessages == {"SQLITE_BUSY", "HRANA_WEBSOCKET_ERROR"}
RollbackMessages == {"SQLITE_ERROR", "HRANA_CLOSED"}

NoValue == [from |-> "none", msg |-> ""]
Raised(from, msg) == [from |-> from, msg |-> msg]
Returned(v) == [from |-> "result", msg |-> v]

\* The catch block ends without a throw: the call resolves with undefined.
RethrownSwallowed(error, rollbacks) == Returned("undefined")
\* The rollback failure replaces the error that caused the rollback.
RethrownMasked(error, rollbacks) ==
  IF rollbacks # << >> /\ rollbacks[Len(rollbacks)].from = "rollback"
    THEN rollbacks[Len(rollbacks)]
    ELSE error
\* throw error; // Re-throw the original error after attempting rollback
Rethrown(error, rollbacks) == error

TxIdle ==
  /\ txPc = "idle"
  /\ txStore = {}
  /\ txPending = {}
  /\ txCallback = NoValue
  /\ txError = NoValue
  /\ txRollback = << >>
  /\ txLog = << >>
  /\ txOutcome = NoValue

TxInit ==
  /\ txPc = "begin"
  /\ txStore \in SUBSET TxRows
  /\ txPending = {}
  /\ txCallback = NoValue
  /\ txError = NoValue
  /\ txRollback = << >>
  /\ txLog = << >>
  /\ txOutcome = NoValue

\* const tx = await db.transaction()
TxBegin ==
  /\ TxFrame
  /\ txPc = "begin"
  /\ txPc' = "callback"
  /\ UNCHANGED <<txStore, txPending, txCallback, txError, txRollback, txLog,
                 txOutcome>>

\* db.transaction() rejects: the call is outside the try block, so the error
\* reaches the caller directly.
TxBeginFails ==
  /\ TxFrame
  /\ txPc = "begin"
  /\ txPc' = "thrown"
  /\ txOutcome' = Raised("begin", "SQLITE_BUSY")
  /\ UNCHANGED <<txStore, txPending, txCallback, txError, txRollback, txLog>>

\* const result = await callback(tx): the callback wrote `rows` and returned
CallbackReturns ==
  /\ TxFrame
  /\ txPc = "callback"
  /\ \E rows \in SUBSET TxRows, v \in TxResults :
       /\ txPending' = rows
       /\ txCallback' = Returned(v)
  /\ txPc' = "commit"
  /\ UNCHANGED <<txStore, txError, txRollback, txLog, txOutcome>>

\* the callback wrote `rows` and then threw: control enters the catch block
CallbackThrows ==
  /\ TxFrame
  /\ txPc = "callback"
  /\ \E rows \in SUBSET TxRows, m \in CallbackMessages :
       /\ txPending' = rows
       /\ txCallback' = Raised("callback", m)
       /\ txError' = Raised("callback", m)
  /\ txPc' = "rollback"
  /\ UNCHANGED <<txStore, txRollback, txLog, txOutcome>>

\* await tx.commit(); return result
CommitSucceeds ==
  /\ TxFrame
  /\ txPc = "commit"
  /\ txStore' = txStore \cup txPending
  /\ txPending' = {}
  /\ txOutcome' = txCallback
  /\ txPc' = "returned"
  /\ UNCHANGED <<txCallback, txError, txRollback, txLog>>

\* tx.commit() rejects: control enters the catch block with the commit error
CommitFails ==
  /\ TxFrame
  /\ txPc = "commit"
  /\ \E m \in CommitMessages : txError' = Raised("commit", m)
  /\ txPc' = "rollback"
  /\ UNCHANGED <<txStore, txPending, txCallback, txRollback, txLog, txOutcome>>

\* await tx.rollback() resolves; console.error(error); throw error
RollbackSucceeds ==
  /\ TxFrame
  /\ txPc = "rollback"
  /\ LET rb == Append(txRollback, Returned("rolled back"))
     IN /\ txRollback' = rb
        /\ txOutcome' = Rethrown(txError, rb)
  /\ txPending' = {}
  /\ txLog' = Append(txLog, txError)
  /\ txPc' = "thrown"
  /\ UNCHANGED <<txStore, txCallback, txError>>

\* await tx.rollback() rejects: the inner catch logs rollbackError, then
\* console.error(error); throw error.  The uncommitted rows stay invisible.
RollbackFails ==
  /\ TxFrame
  /\ txPc = "rollback"
  /\ \E m \in RollbackMessages :
       LET rb == Append(txRollback, Raised("rollback", m))
       IN /\ txRollback' = rb
          /\ txLog' = txLog \o <<Raised("rollback", m), txError>>
          /\ txOutcome' = Rethrown(txError, rb)
  /\ txPc' = "thrown"
  /\ UNCHANGED <<txStore, txPending, txCallback, txError>>

TxNext ==
  \/ TxBegin
  \/ TxBeginFails
  \/ CallbackReturns
  \/ CallbackThrows
  \/ CommitSucceeds
  \/ CommitFails
  \/ RollbackSucceeds
  \/ RollbackFails

\* C4: whenever the callback throws, exactly one rollback is attempted and
\* the caller receives the callback's own exception, also when the rollback
\* fails; a rollback failure is logged and never thrown.
C4_OriginalErrorRethrown ==
  (txCallback.from = "callback" /\ txPc \notin {"rollback"})
    => /\ txPc = "thrown"
       /\ txOutcome = txCallback
       /\ Len(txRollback) = 1
       /\ (txRollback[1].from = "rollback"
             => /\ \E i \in 1..Len(txLog) : txLog[i] = txRollback[1]
                /\ txOutcome # txRollback[1])

\* C4 witness: the callback threw 'Campaign not found', the rollback failed
\* too, and the call has ended.
C4_Witness ==
  /\ txPc = "thrown"
  /\ txCallback = Raised("callback", "Campaign not found")
  /\ Len(txRollback) = 1
  /\ txRollback[1].from = "rollback"


(***************************************************************************)
(* class Cache                                                             *)
(***************************************************************************)

\* constructor(defaultDuration = 5 * 60 * 1000)
DefaultDuration == 300000

\* How often the clock advances, and how many set() calls are made.
MaxTicks == 2
MaxTimers == 1

\* The amounts of time (ms) that pass between two events.
ClockSteps == {1, 300000}
\* The keys, the data and the custom durations (ms) the callers use.
CacheKeys == {"k1", "k2"}
CacheData == {"v1", "v2"}
CustomDurations == {100000, 400000}

NoEntry == [data |-> "none", timestamp |-> -1]
NoGet == [key |-> "none", data |-> "null", age |-> 0, ttl |-> 0]
NoUpdate == [key |-> "none"]
NoFetch == [pc |-> "idle"]

\* An entry that never expires.
IsExpiredNever(entry, t) == FALSE
\* if (now - entry.timestamp > this.defaultDuration)
IsExpired(entry, t) == t - entry.timestamp > DefaultDuration

CacheIdle ==
  /\ cache = [k \in CacheKeys |-> NoEntry]
  /\ now = 0
  /\ timers = {}
  /\ ticks = 0
  /\ setTtl = [k \in CacheKeys |-> 0]
  /\ lastGet = NoGet
  /\ lastUpdate = NoUpdate
  /\ fetching = NoFetch

\* new Cache(): an empty map
CacheInit == CacheIdle

\* Time passes.
ClockAdvances ==
  /\ CacheFrame
  /\ fetching' = fetching
  /\ lastUpdate' = NoUpdate
  /\ ticks < MaxTicks
  /\ \E d \in ClockSteps : now' = now + d
  /\ ticks' = ticks + 1
  /\ lastGet' = NoGet
  /\ UNCHANGED <<cache, timers, setTtl>>

\* get(key)
CacheGet ==
  /\ CacheFrame
  /\ fetching' = fetching
  /\ lastUpdate' = NoUpdate
  /\ \E key \in CacheKeys :
       LET entry == cache[key]
       IN IF entry = NoEntry
            THEN /\ lastGet' = [NoGet EXCEPT !.key = key]
                 /\ UNCHANGED <<cache, setTtl>>
          ELSE IF IsExpired(entry, now)
            THEN /\ cache' = [cache EXCEPT ![key] = NoEntry]
                 /\ setTtl' = [setTtl EXCEPT ![key] = 0]
                 /\ lastGet' = [NoGet EXCEPT !.key = key]
          ELSE /\ UNCHANGED <<cache, setTtl>>
               /\ lastGet' = [key |-> key, data |-> entry.data,
                              age |-> now - entry.timestamp,
                              ttl |-> setTtl[key]]
  /\ UNCHANGED <<now, timers, ticks>>

\* set(key, data): no duration, so no timer
CacheSetDefault ==
  /\ CacheFrame
  /\ fetching' = fetching
  /\ lastUpdate' = NoUpdate
  /\ \E key \in CacheKeys, data \in CacheData :
       /\ cache' = [cache EXCEPT ![key] = [data |-> data, timestamp |-> now]]
       /\ setTtl' = [setTtl EXCEPT ![key] = DefaultDuration]
  /\ lastGet' = NoGet
  /\ UNCHANGED <<now, timers, ticks>>

\* set(key, data, duration): stores the entry and schedules its eviction
CacheSetCustom ==
  /\ CacheFrame
  /\ fetching' = fetching
  /\ lastUpdate' = NoUpdate
  /\ Cardinality(timers) < MaxTimers
  /\ \E key \in CacheKeys, data \in CacheData, duration \in CustomDurations :
       /\ cache' = [cache EXCEPT ![key] = [data |-> data, timestamp |-> now]]
       /\ setTtl' = [setTtl EXCEPT ![key] = duration]
       /\ timers' = timers \cup {[key |-> key, timestamp |-> now,
                                    due |-> now + duration, data |-> data]}
  /\ lastGet' = NoGet
  /\ UNCHANGED <<now, ticks>>

\* the setTimeout callback of set(): it runs at its due time or later
TimerFires ==
  /\ CacheFrame
  /\ fetching' = fetching
  /\ lastUpdate' = NoUpdate
  /\ \E t \in timers :
       LET entry == cache[t.key]
       IN /\ now >= t.due
          /\ timers' = timers \ {t}
          /\ IF entry # NoEntry /\ entry.timestamp = t.timestamp
               THEN /\ cache' = [cache EXCEPT ![t.key] = NoEntry]
                    /\ setTtl' = [setTtl EXCEPT ![t.key] = 0]
               ELSE UNCHANGED <<cache, setTtl>>
  /\ lastGet' = NoGet
  /\ UNCHANGED <<now, ticks>>

\* delete(key)
CacheDelete ==
  /\ CacheFrame
  /\ fetching' = fetching
  /\ lastUpdate' = NoUpdate
  /\ \E key \in CacheKeys :
       /\ cache' = [cache EXCEPT ![key] = NoEntry]
       /\ setTtl' = [setTtl EXCEPT ![key] = 0]
  /\ lastGet' = NoGet
  /\ UNCHANGED <<now, timers, ticks>>

\* clear()
CacheClear ==
  /\ CacheFrame
  /\ fetching' = fetching
  /\ lastUpdate' = NoUpdate
  /\ cache' = [k \in CacheKeys |-> NoEntry]
  /\ setTtl' = [k \in CacheKeys |-> 0]
  /\ lastGet' = NoGet
  /\ UNCHANGED <<now, timers, ticks>>

\* ---- updateCollectionItem (src/lib/cache.ts:89-118)

\* The items of a collection, and the collections set() is called with.
ItemIds == {"i1", "i2"}
ItemValues == {"a", "b"}
Items == [id : ItemIds, v : ItemValues]
Collections ==
  {<< >>, <<[id |-> "i1", v |-> "a"]>>,
   <<[id |-> "i1", v |-> "a"], [id |-> "i2", v |-> "a"]>>}

\* The itemData argument: an item with the value b, or the function
\* existing => ({ ...existing, v: 'b' }).
ItemData ==
  [kind : {"value", "function"}, item : {it \in Items : it.v = "b"}]

\* typeof itemData === 'function', never true
TypeofFunctionNever(itemData) == FALSE
\* typeof itemData === 'function'
TypeofFunction(itemData) == itemData.kind = "function"

\* itemData(item)
Apply(itemData, item) == [item EXCEPT !.v = itemData.item.v]

\* What set() stores for a function-typed itemData.
Stored(itemData) ==
  IF itemData.kind = "function"
    THEN [id |-> "function", v |-> itemData.item.v]
    ELSE itemData.item

\* this.get(collectionKey) returns null: no entry, or an expired one
GetMisses(entry, t) ==
  entry.timestamp = NoEntry.timestamp \/ IsExpired(entry, t)

\* What get(key) would return at time t: the data of an entry that is there
\* and has not expired.
Held(c, key, t) ==
  IF GetMisses(c[key], t)
    THEN [present |-> FALSE, data |-> << >>]
    ELSE [present |-> TRUE, data |-> c[key].data]

\* collection.map(item => item[idField] === itemId ? ... : item)
MapCollection(collection, itemId, itemData) ==
  [i \in 1..Len(collection) |->
     IF collection[i].id = itemId
       THEN IF TypeofFunction(itemData)
              THEN Apply(itemData, collection[i])
              ELSE itemData.item
       ELSE collection[i]]

\* set(key, collection): a caller stores a collection
CacheSetCollection ==
  /\ CacheFrame
  /\ fetching' = fetching
  /\ \E key \in CacheKeys, data \in Collections :
       /\ cache' = [cache EXCEPT ![key] = [data |-> data, timestamp |-> now]]
       /\ setTtl' = [setTtl EXCEPT ![key] = DefaultDuration]
  /\ lastGet' = NoGet
  /\ lastUpdate' = NoUpdate
  /\ UNCHANGED <<now, timers, ticks>>

\* updateCollectionItem(collectionKey, itemId, itemData)
UpdateCollectionItem ==
  /\ CacheFrame
  /\ fetching' = fetching
  /\ \E key \in CacheKeys, itemId \in ItemIds, itemData \in ItemData :
       LET entry == cache[key]
           fresh(data) == [data |-> data, timestamp |-> now]
       IN /\ lastUpdate' = [key |-> key, itemId |-> itemId,
                            itemData |-> itemData,
                            found |-> ~GetMisses(entry, now),
                            before |-> [k \in CacheKeys |->
                                          Held(cache, k, now)]]
          /\ IF GetMisses(entry, now)
               THEN IF TypeofFunction(itemData)
                      THEN \* get() has deleted an expired entry
                           /\ cache' = [cache EXCEPT ![key] = NoEntry]
                           /\ setTtl' = [setTtl EXCEPT ![key] = 0]
                      ELSE /\ cache' = [cache EXCEPT
                                          ![key] = fresh(<<Stored(itemData)>>)]
                           /\ setTtl' = [setTtl EXCEPT
                                           ![key] = DefaultDuration]
               ELSE /\ cache' =
                         [cache EXCEPT
                            ![key] = fresh(MapCollection(entry.data, itemId,
                                                         itemData))]
                    /\ setTtl' = [setTtl EXCEPT ![key] = DefaultDuration]
  /\ lastGet' = NoGet
  /\ UNCHANGED <<now, timers, ticks>>

\* ---- getOrFetch (src/lib/cache.ts:136-152)

\* What a fetcher resolves with: '' is a value that is false in a condition.
FetchData == {"", "v1"}
\* if (cachedData)
Truthy(data) == data # "null" /\ data # ""

\* get(key) as a function of the map: null without an entry or with an
\* expired one
GetResult(c, key, t) ==
  IF c[key] = NoEntry \/ IsExpired(c[key], t) THEN "null" ELSE c[key].data

\* const cachedData = cache.get(cacheKey); if (cachedData) return cachedData;
\* otherwise the fetcher is invoked
GetOrFetchCalled ==
  /\ CacheFrame
  /\ fetching.pc \in {"idle", "returned", "thrown"}
  /\ \E key \in CacheKeys, duration \in CustomDurations \cup {0} :
       LET got == GetResult(cache, key, now)
           call == [pc |-> "fetching", key |-> key, duration |-> duration,
                    held |-> got, invoked |-> 1, outcome |-> "none"]
       IN /\ IF cache[key] # NoEntry /\ IsExpired(cache[key], now)
               THEN /\ cache' = [cache EXCEPT ![key] = NoEntry]
                    /\ setTtl' = [setTtl EXCEPT ![key] = 0]
               ELSE UNCHANGED <<cache, setTtl>>
          /\ fetching' =
               IF Truthy(got)
                 THEN [call EXCEPT !.pc = "returned", !.invoked = 0,
                                   !.outcome = got]
                 ELSE call
  /\ lastGet' = NoGet
  /\ lastUpdate' = NoUpdate
  /\ UNCHANGED <<now, timers, ticks>>

\* const data = await fetcher(); cache.set(cacheKey, data, duration);
\* return data
FetcherResolves ==
  /\ CacheFrame
  /\ fetching.pc = "fetching"
  /\ fetching.duration # 0 => Cardinality(timers) < MaxTimers
  /\ \E data \in FetchData :
       /\ cache' = [cache EXCEPT
                      ![fetching.key] = [data |-> data, timestamp |-> now]]
       /\ timers' =
            IF fetching.duration # 0
              THEN timers \cup {[key |-> fetching.key, timestamp |-> now,
                                  due |-> now + fetching.duration,
                                  data |-> data]}
              ELSE timers
       /\ fetching' = [fetching EXCEPT !.pc = "returned", !.outcome = data]
  /\ setTtl' = [setTtl EXCEPT
                  ![fetching.key] = IF fetching.duration # 0
                                      THEN fetching.duration
                                      ELSE DefaultDuration]
  /\ lastGet' = NoGet
  /\ lastUpdate' = NoUpdate
  /\ UNCHANGED <<now, ticks>>

\* await fetcher() rejects: the error reaches the caller
FetcherRejects ==
  /\ CacheFrame
  /\ fetching.pc = "fetching"
  /\ fetching' = [fetching EXCEPT !.pc = "thrown", !.outcome = "error"]
  /\ lastGet' = NoGet
  /\ lastUpdate' = NoUpdate
  /\ UNCHANGED <<cache, now, timers, ticks, setTtl>>

\* getOrFetch next to the other callers of the cache.
FetchNext ==
  \/ ClockAdvances
  \/ GetOrFetchCalled
  \/ FetcherResolves
  \/ FetcherRejects
  \/ CacheSetDefault
  \/ CacheDelete
  \/ TimerFires

\* A cache of collections and the calls made on it.
CollectionNext ==
  \/ ClockAdvances
  \/ CacheSetCollection
  \/ UpdateCollectionItem
  \/ CacheDelete

CacheNext ==
  \/ ClockAdvances
  \/ CacheGet
  \/ CacheSetDefault
  \/ CacheSetCustom
  \/ TimerFires
  \/ CacheDelete
  \/ CacheClear

\* C8 (as claimed): a get that returns an entry returns one whose age does not
\* exceed the ttl it was stored with (the duration given to set, or the
\* default), whether or not the eviction timer has run yet.
C8_GetNeverOlderThanTtl ==
  lastGet.data # "null" => lastGet.age <= lastGet.ttl


(***************************************************************************)
(* The donation write path (DonationRecorder), the aggregate readers and   *)
(* the campaign delete that run concurrently with it                       *)
(***************************************************************************)

\* The requests in flight.  Each runs one handler.
Procs == {"p1", "p2"}
NoProc == "none"

\* Campaign c1 exists from the start and belongs to wallet w1, whose user
\* row is u0; c2 is the id of no campaign.  Wallet w2 has no user row yet.
CampaignIds == {"c1", "c2"}
Wallets == {"w1", "w2"}
OwnerOf == [c \in CampaignIds |-> "w1"]

\* What the callers of POST /api/donations send.
DonationIds == {"d1", "d2"}
Signatures == {"s1", "s2"}
Amounts == {0, 1}

\* PRAGMA foreign_keys is a setting of the deployment: a statement that
\* breaks donations.campaign_id -> campaigns.id fails when it is on and
\* succeeds when it is off.
ForeignKeys == {TRUE, FALSE}

\* SQL NULL for MAX() and MIN() over no rows.
Null == -1

Absent == [kind |-> "absent"]

\* ---- cache keys, as the sequence of the parts the template strings join
\* `donations:wallet:${walletAddress}`
WalletKey(w) == <<"donations", "wallet", w>>
\* `donations:summary:${campaignId}`
SummaryKey(c) == <<"donations", "summary", c>>
\* `donations:campaign:${campaignId}:${page}:${limit}`
PageKey(c) == <<"donations", "campaign", c, "1", "20">>
\* `campaigns:${JSON.stringify({ id, sortBy, offset, limit })}`
ByIdKey(c) == <<"campaigns", "id", c, "newest", "0", "20">>
\* `campaigns:${JSON.stringify({ sortBy, offset, limit })}`: no id given
ListKey == <<"campaigns", "newest", "0", "20">>
\* `campaigns:${JSON.stringify({ walletAddress, sortBy, offset, limit })}`
OwnerListKey(w) == <<"campaigns", "walletAddress", w, "newest", "0", "20">>

DonationCacheKeys ==
  {WalletKey(w) : w \in Wallets} \cup {SummaryKey(c) : c \in CampaignIds}
    \cup {PageKey(c) : c \in CampaignIds}
CampaignCacheKeys ==
  {ListKey} \cup {ByIdKey(c) : c \in CampaignIds}
    \cup {OwnerListKey(w) : w \in Wallets}

\* key.includes(campaign_id)
KeyIncludes(key, id) == \E i \in 1..Len(key) : key[i] = id

\* ---- the aggregate query of getCampaignDonationsSummary
RECURSIVE SumAmounts(_)
SumAmounts(rows) ==
  IF rows = {} THEN 0
  ELSE LET r == CHOOSE x \in rows : TRUE
       IN r.amount + SumAmounts(rows \ {r})

MaxAmount(rows) ==
  IF rows = {} THEN Null
  ELSE CHOOSE a \in {r.amount : r \in rows} : \A r \in rows : r.amount <= a

MinAmount(rows) ==
  IF rows = {} THEN Null
  ELSE CHOOSE a \in {r.amount : r \in rows} : \A r \in rows : r.amount >= a

DonationsOf(c, table) == {d \in table : d.campaign_id = c}

\* AVG(amount): the fraction <<sum, count>>, NULL over no row
AvgAmount(rows) ==
  IF rows = {} THEN Null ELSE <<SumAmounts(rows), Cardinality(rows)>>

\* SELECT COUNT(*), COALESCE(SUM(amount), 0), MAX(amount), MIN(amount),
\* AVG(amount) FROM donations WHERE campaign_id = ?
\* (ids: the rows aggregated)
SummaryOf(c, table) ==
  LET rows == DonationsOf(c, table)
  IN [kind |-> "summary",
      ids |-> {r.id : r \in rows},
      donation_count |-> Cardinality(rows),
      total_raised |-> SumAmounts(rows),
      largest_donation |-> MaxAmount(rows),
      smallest_donation |-> MinAmount(rows),
      average_donation |-> AvgAmount(rows)]

\* donationSchema: amount is z.coerce.number().positive()
DonationValid(amount) == amount > 0

\* uuidv4(): the id of the user row a request creates
NewUserId(p) == p

UserRow(id, w) == [id |-> id, wallet_address |-> w]
DonationRow(id, c, donor, amount, sig) ==
  [id |-> id, campaign_id |-> c, donor_id |-> donor, amount |-> amount,
   transaction_signature |-> sig]

UsersByWallet(w, table) == {u \in table : u.wallet_address = w}

\* The PRIMARY KEY of donations.id, switched off.
DonationIdTakenNever(id, table) == FALSE
\* The PRIMARY KEY of donations.id (schema.sql:24).
DonationIdTaken(id, table) == \E d \in table : d.id = id

\* The message of the error a second row with a wallet address raises.
WalletUniqueViolation == "UNIQUE constraint failed: users.wallet_address"

\* The UNIQUE constraint of users.wallet_address, switched off.
WalletTakenNever(w, table) == FALSE
\* The UNIQUE constraint of users.wallet_address (schema.sql:57).
WalletTaken(w, table) == UsersByWallet(w, table) # {}

\* A request's arguments and locals.  replayOf, newUser and erased are
\* history: the donation that already carried the signature when the request
\* arrived, whether the request inserted a user row, and whether its
\* donation row was deleted again after its commit.
NoLoc ==
  [op |-> "none", id |-> "none", campaign |-> "none", wallet |-> "none",
   amount |-> 0, sig |-> "none", userId |-> "none", pendUsers |-> {},
   pendDons |-> {}, err |-> "none", read |-> Absent, replayOf |-> "none",
   newUser |-> FALSE, erased |-> FALSE, title |-> << >>, slug |-> << >>,
   oldSlug |-> << >>, hasSlug |-> FALSE, counter |-> 0, removed |-> {},
   oldTitle |-> << >>, goal |-> 0, keep |-> FALSE]

NoResp == [status |-> 0, donation_id |-> "none", stats |-> Absent,
           source |-> "none", error |-> "none"]

Response(status) == [NoResp EXCEPT !.status = status]

\* The locals a finished request keeps (for the record of what it did).
Finished(l) ==
  [l EXCEPT !.amount = 0, !.campaign = "none", !.pendUsers = {},
            !.pendDons = {}, !.read = Absent, !.title = << >>,
            !.slug = << >>, !.oldSlug = << >>, !.hasSlug = FALSE,
            !.counter = 0, !.removed = {}, !.oldTitle = << >>,
            !.goal = 0, !.keep = FALSE]

MainIdle ==
  /\ campaigns = {}
  /\ users = {}
  /\ donations = {}
  /\ dbLock = NoProc
  /\ foreignKeys = FALSE
  /\ donationCache = [k \in DonationCacheKeys |-> Absent]
  /\ campaignCache = [k \in CampaignCacheKeys |-> Absent]
  /\ pc = [p \in Procs |-> "off"]
  /\ loc = [p \in Procs |-> NoLoc]
  /\ resp = [p \in Procs |-> NoResp]

\* Campaign c1 was created by wallet w1; nothing is cached; no donation yet.
MainInit ==
  /\ campaigns = {"c1"}
  /\ users = {UserRow("u0", OwnerOf["c1"])}
  /\ donations = {}
  /\ dbLock = NoProc
  /\ foreignKeys \in ForeignKeys
  /\ donationCache = [k \in DonationCacheKeys |-> Absent]
  /\ campaignCache = [k \in CampaignCacheKeys |-> Absent]
  /\ pc = [p \in Procs |-> "idle"]
  /\ loc = [p \in Procs |-> NoLoc]
  /\ resp = [p \in Procs |-> NoResp]

\* ---- steps shared by the handlers
Goto(p, label) == pc' = [pc EXCEPT ![p] = label]

\* NextResponse.json(...): the handler ends
Respond(p, r) ==
  /\ resp' = [resp EXCEPT ![p] = r]
  /\ pc' = [pc EXCEPT ![p] = "done"]

\* The keys of donationCache POST /api/donations deletes after an insert,
\* without the summary key.
DeletedDonationKeysNoSummary(c, w) == {WalletKey(w)}
\* donationCache.delete(donorCacheKey); donationCache.delete(donationSummaryKey)
DeletedDonationKeys(c, w) == {WalletKey(w), SummaryKey(c)}

\* campaignCache.getKeys().filter(key => key.includes(campaign_id))
DeletedCampaignKeys(c) ==
  {k \in CampaignCacheKeys : campaignCache[k] # Absent /\ KeyIncludes(k, c)}


\* ---- POST /api/donations (src/app/api/donations/route.ts:102-210)

\* request.json(); donationSchema.safeParse(body)
RecordStart(p) ==
  /\ MainFrame
  /\ pc[p] = "idle"
  /\ \E id \in DonationIds, c \in CampaignIds, w \in Wallets,
        a \in Amounts, sig \in Signatures :
       LET prior == {d \in donations : d.transaction_signature = sig}
           l == [NoLoc EXCEPT !.op = "record", !.id = id, !.campaign = c,
                              !.wallet = w, !.amount = a, !.sig = sig,
                              !.replayOf =
                                 IF prior = {} THEN "none"
                                 ELSE (CHOOSE d \in prior : TRUE).id]
       IN /\ loc' = [loc EXCEPT
                         ![p] = IF DonationValid(a) THEN l ELSE Finished(l)]
          /\ IF DonationValid(a)
               THEN /\ Goto(p, "rec_begin")
                    /\ resp' = resp
               ELSE Respond(p, Response(400))
  /\ UNCHANGED <<dbVars, cacheVars>>

\* executeInTransaction: const tx = await db.transaction()
RecordBegin(p) ==
  /\ MainFrame
  /\ pc[p] = "rec_begin"
  /\ dbLock = NoProc
  /\ dbLock' = p
  /\ Goto(p, "rec_campaign")
  /\ UNCHANGED <<campaigns, users, donations, foreignKeys, cacheVars, loc,
                 resp>>

\* SELECT id, wallet_address FROM campaigns WHERE id = ?
RecordCheckCampaign(p) ==
  /\ MainFrame
  /\ pc[p] = "rec_campaign"
  /\ IF loc[p].campaign \in campaigns
       THEN /\ Goto(p, "rec_user")
            /\ loc' = loc
       ELSE /\ Goto(p, "rec_rollback")
            /\ loc' = [loc EXCEPT ![p].err = "Campaign not found"]
  /\ UNCHANGED <<dbVars, cacheVars, resp>>

\* SELECT id FROM users WHERE wallet_address = ?
RecordFindUser(p) ==
  /\ MainFrame
  /\ pc[p] = "rec_user"
  /\ LET found == UsersByWallet(loc[p].wallet, users)
     IN IF found = {}
          THEN /\ loc' = [loc EXCEPT ![p].userId = NewUserId(p)]
               /\ Goto(p, "rec_insuser")
          ELSE /\ loc' = [loc EXCEPT ![p].userId =
                                       (CHOOSE u \in found : TRUE).id]
               /\ Goto(p, "rec_insdon")
  /\ UNCHANGED <<dbVars, cacheVars, resp>>

\* INSERT INTO users (id, wallet_address, ...) through tx
RecordInsertUser(p) ==
  /\ MainFrame
  /\ pc[p] = "rec_insuser"
  /\ IF WalletTaken(loc[p].wallet, users)
       THEN /\ loc' = [loc EXCEPT ![p].err = WalletUniqueViolation]
            /\ Goto(p, "rec_rollback")
       ELSE /\ loc' = [loc EXCEPT
                         ![p].pendUsers =
                            {UserRow(loc[p].userId, loc[p].wallet)},
                         ![p].newUser = TRUE]
            /\ Goto(p, "rec_insdon")
  /\ UNCHANGED <<dbVars, cacheVars, resp>>

\* INSERT INTO donations (id, campaign_id, donor_id, amount,
\* transaction_signature, created_at) through tx: id is the primary key
RecordInsertDonation(p) ==
  /\ MainFrame
  /\ pc[p] = "rec_insdon"
  /\ IF DonationIdTaken(loc[p].id, donations)
       THEN /\ loc' = [loc EXCEPT ![p].err = "SQLITE_CONSTRAINT"]
            /\ Goto(p, "rec_rollback")
       ELSE /\ loc' = [loc EXCEPT
                         ![p].pendDons =
                            {DonationRow(loc[p].id, loc[p].campaign,
                                         loc[p].userId, loc[p].amount,
                                         loc[p].sig)}]
            /\ Goto(p, "rec_commit")
  /\ UNCHANGED <<dbVars, cacheVars, resp>>

\* await tx.commit()
RecordCommit(p) ==
  /\ MainFrame
  /\ pc[p] = "rec_commit"
  /\ users' = users \cup loc[p].pendUsers
  /\ donations' = donations \cup loc[p].pendDons
  /\ dbLock' = NoProc
  /\ loc' = [loc EXCEPT ![p].pendUsers = {}, ![p].pendDons = {}]
  /\ Goto(p, "rec_invalidate")
  /\ UNCHANGED <<campaigns, foreignKeys, cacheVars, resp>>

\* A statement of the transaction, or its commit, rejects.
RecordStatementFails(p) ==
  /\ MainFrame
  /\ pc[p] \in {"rec_campaign", "rec_user", "rec_insuser", "rec_insdon",
                "rec_commit"}
  /\ loc' = [loc EXCEPT ![p].err = "SQLITE_ERROR"]
  /\ Goto(p, "rec_rollback")
  /\ UNCHANGED <<dbVars, cacheVars, resp>>

\* Every error answered with the generic status.
CatchStatusGeneric(err) == 500
\* POST's catch: if (error.message === 'Campaign not found') 404, else 500
CatchStatus(err) == IF err = "Campaign not found" THEN 404 ELSE 500

\* A catch block that deletes the donor's and the summary key as well.
KeysDeletedInCatchAsAfterCommit(c, w) == DeletedDonationKeys(c, w)
\* The keys of donationCache that POST's catch block deletes: it calls no
\* cache method (route.ts:192-209).
KeysDeletedInCatch(c, w) == {}

\* executeInTransaction's catch: tx.rollback(), throw error; then POST's
\* catch: 404 for 'Campaign not found', 500 otherwise
RecordRollback(p) ==
  /\ MainFrame
  /\ pc[p] = "rec_rollback"
  /\ dbLock' = NoProc
  /\ loc' = [loc EXCEPT ![p] = Finished(loc[p])]
  /\ Respond(p, Response(CatchStatus(loc[p].err)))
  /\ donationCache' =
       [k \in DonationCacheKeys |->
          IF k \in KeysDeletedInCatch(loc[p].campaign, loc[p].wallet)
            THEN Absent ELSE donationCache[k]]
  /\ UNCHANGED <<campaigns, users, donations, foreignKeys, campaignCache>>

\* After the commit: the three cache deletions, then
\* getCampaignDonationsSummary up to its first await (its cache lookup)
RecordInvalidate(p) ==
  /\ MainFrame
  /\ pc[p] = "rec_invalidate"
  /\ LET c == loc[p].campaign
         dc == [k \in DonationCacheKeys |->
                  IF k \in DeletedDonationKeys(c, loc[p].wallet)
                    THEN Absent ELSE donationCache[k]]
         cc == [k \in CampaignCacheKeys |->
                  IF k \in DeletedCampaignKeys(c)
                    THEN Absent ELSE campaignCache[k]]
     IN /\ donationCache' = dc
        /\ campaignCache' = cc
        /\ IF dc[SummaryKey(c)] # Absent
             THEN /\ Respond(p, [status |-> 200, donation_id |-> loc[p].id,
                                 stats |-> dc[SummaryKey(c)],
                                 source |-> "cache"])
                  /\ loc' = [loc EXCEPT ![p] = Finished(loc[p])]
             ELSE /\ Goto(p, "sum_query")
                  /\ UNCHANGED <<loc, resp>>
  /\ UNCHANGED dbVars

\* ---- getCampaignDonationsSummary (db-utils, src/unnamed/part_001:295-346)

\* the database evaluates the aggregate query
SummaryQuery(p) ==
  /\ MainFrame
  /\ pc[p] = "sum_query"
  /\ loc' = [loc EXCEPT ![p].read = SummaryOf(loc[p].campaign, donations)]
  /\ Goto(p, "sum_store")
  /\ UNCHANGED <<dbVars, cacheVars, resp>>

\* the aggregate query rejects: the caller answers 500
SummaryQueryFails(p) ==
  /\ MainFrame
  /\ pc[p] = "sum_query"
  /\ loc' = [loc EXCEPT
               ![p] = Finished([loc[p] EXCEPT !.err = "summary query failed"])]
  /\ Respond(p, Response(500))
  /\ UNCHANGED <<dbVars, cacheVars>>

\* donationCache.set(cacheKey, summary); return summary; the caller answers
SummaryStore(p) ==
  /\ MainFrame
  /\ pc[p] = "sum_store"
  /\ donationCache' =
       [donationCache EXCEPT ![SummaryKey(loc[p].campaign)] = loc[p].read]
  /\ Respond(p, [status |-> 200,
                 donation_id |-> IF loc[p].op = "record" THEN loc[p].id
                                 ELSE "none",
                 stats |-> loc[p].read, source |-> "db"])
  /\ loc' = [loc EXCEPT ![p] = Finished(loc[p])]
  /\ UNCHANGED <<dbVars, campaignCache>>

\* ---- the earlier POST /api/donations (src/unnamed/part_014:109-235)

\* body parsed and validated
LegacyStart(p) ==
  /\ MainFrame
  /\ pc[p] = "idle"
  /\ \E id \in DonationIds, c \in CampaignIds, w \in Wallets,
        a \in Amounts, sig \in Signatures :
       LET prior == {d \in donations : d.transaction_signature = sig}
           l == [NoLoc EXCEPT !.op = "legacy", !.id = id, !.campaign = c,
                              !.wallet = w, !.amount = a, !.sig = sig,
                              !.replayOf =
                                 IF prior = {} THEN "none"
                                 ELSE (CHOOSE d \in prior : TRUE).id]
       IN /\ loc' = [loc EXCEPT
                         ![p] = IF DonationValid(a) THEN l ELSE Finished(l)]
          /\ IF DonationValid(a)
               THEN /\ Goto(p, "leg_txcheck")
                    /\ resp' = resp
               ELSE Respond(p, Response(400))
  /\ UNCHANGED <<dbVars, cacheVars>>

\* SELECT id FROM donations WHERE transaction_signature = ?
LegacyCheckSignature(p) ==
  /\ MainFrame
  /\ pc[p] = "leg_txcheck"
  /\ IF \E d \in donations : d.transaction_signature = loc[p].sig
       THEN /\ Respond(p, Response(409))
            /\ loc' = [loc EXCEPT ![p] = Finished(loc[p])]
       ELSE /\ Goto(p, "leg_campaign")
            /\ UNCHANGED <<loc, resp>>
  /\ UNCHANGED <<dbVars, cacheVars>>

\* SELECT id, goal_amount, title, ... FROM campaigns WHERE id = ?
LegacyCheckCampaign(p) ==
  /\ MainFrame
  /\ pc[p] = "leg_campaign"
  /\ IF loc[p].campaign \in campaigns
       THEN /\ Goto(p, "leg_user")
            /\ UNCHANGED <<loc, resp>>
       ELSE /\ Respond(p, Response(404))
            /\ loc' = [loc EXCEPT ![p] = Finished(loc[p])]
  /\ UNCHANGED <<dbVars, cacheVars>>

\* SELECT id FROM users WHERE wallet_address = ?
LegacyFindUser(p) ==
  /\ MainFrame
  /\ pc[p] = "leg_user"
  /\ LET found == UsersByWallet(loc[p].wallet, users)
     IN IF found = {}
          THEN /\ loc' = [loc EXCEPT ![p].userId = NewUserId(p)]
               /\ Goto(p, "leg_insuser")
          ELSE /\ loc' = [loc EXCEPT ![p].userId =
                                       (CHOOSE u \in found : TRUE).id]
               /\ Goto(p, "leg_upduser")
  /\ UNCHANGED <<dbVars, cacheVars, resp>>

\* INSERT INTO users ...: its own statement, committed when it returns
LegacyInsertUser(p) ==
  /\ MainFrame
  /\ pc[p] = "leg_insuser"
  /\ dbLock = NoProc
  /\ IF WalletTaken(loc[p].wallet, users)
       THEN /\ loc' = [loc EXCEPT
                         ![p] = Finished([loc[p] EXCEPT
                                            !.err = WalletUniqueViolation])]
            /\ Respond(p, Response(500))
            /\ users' = users
       ELSE /\ users' = users \cup {UserRow(loc[p].userId, loc[p].wallet)}
            /\ loc' = [loc EXCEPT ![p].newUser = TRUE]
            /\ Goto(p, "leg_insdon")
            /\ resp' = resp
  /\ UNCHANGED <<campaigns, donations, dbLock, foreignKeys, cacheVars>>

\* UPDATE users SET updated_at = ? WHERE id = ?
LegacyTouchUser(p) ==
  /\ MainFrame
  /\ pc[p] = "leg_upduser"
  /\ dbLock = NoProc
  /\ Goto(p, "leg_insdon")
  /\ UNCHANGED <<dbVars, cacheVars, loc, resp>>

\* BEGIN TRANSACTION; INSERT INTO donations ...; COMMIT.  The insert fails on
\* a taken id, and on a missing campaign when foreign keys are enforced;
\* then ROLLBACK, rethrow, 500.
LegacyInsertDonation(p) ==
  /\ MainFrame
  /\ pc[p] = "leg_insdon"
  /\ dbLock = NoProc
  /\ IF \/ DonationIdTaken(loc[p].id, donations)
        \/ (foreignKeys /\ loc[p].campaign \notin campaigns)
       THEN /\ loc' = [loc EXCEPT
                         ![p] = Finished([loc[p] EXCEPT
                                            !.err = "SQLITE_CONSTRAINT"])]
            /\ Respond(p, Response(500))
            /\ donations' = donations
       ELSE /\ donations' = donations \cup
                 {DonationRow(loc[p].id, loc[p].campaign, loc[p].userId,
                              loc[p].amount, loc[p].sig)}
            /\ Respond(p, [Response(200) EXCEPT !.donation_id = loc[p].id])
            /\ loc' = [loc EXCEPT ![p] = Finished(loc[p])]
  /\ UNCHANGED <<campaigns, users, dbLock, foreignKeys, cacheVars>>

\* A statement of the handler rejects: the outer catch answers 500.
LegacyStatementFails(p) ==
  /\ MainFrame
  /\ pc[p] \in {"leg_txcheck", "leg_campaign", "leg_user", "leg_insuser",
                "leg_upduser", "leg_insdon"}
  /\ loc' = [loc EXCEPT ![p] = Finished([loc[p] EXCEPT !.err = "SQLITE_ERROR"])]
  /\ Respond(p, Response(500))
  /\ UNCHANGED <<dbVars, cacheVars>>

\* ---- GET /api/campaigns -> getCampaigns (src/unnamed/part_001:44-211)

ListKeyOf(c) == IF c = "none" THEN ListKey ELSE ByIdKey(c)

\* Math.round(n / d): the integer nearest to n / d, halves upwards
RoundDiv(n, d) ==
  IF d > 0 THEN (2 * n + d) \div (2 * d) ELSE (-(2 * n + d)) \div (-(2 * d))

\* if (campaign.total_raised && campaign.goal_amount)
\*   Math.min(Math.round((total_raised / goal_amount) * 100), 100)
\* else 0
FundingPercentage(total, goal) ==
  IF total # 0 /\ goal # 0 THEN Min(RoundDiv(total * 100, goal), 100) ELSE 0

\* the rows of the listing: every campaign (or the one asked for) with the
\* totals of its donations
ListingOf(c, campaignTable, donationTable) ==
  [kind |-> "listing",
   rows |-> {[id |-> x,
              donation_count |-> Cardinality(DonationsOf(x, donationTable)),
              total_raised |-> SumAmounts(DonationsOf(x, donationTable)),
              funding_percentage |->
                FundingPercentage(SumAmounts(DonationsOf(x, donationTable)),
                                  campaignRow[x].goal)] :
             x \in {y \in campaignTable : c = "none" \/ y = c}}]

\* campaignCache.get(cacheKey)
ListStart(p) ==
  /\ MainFrame
  /\ pc[p] = "idle"
  /\ \E c \in CampaignIds \cup {"none"} :
       IF campaignCache[ListKeyOf(c)] # Absent
         THEN /\ loc' = [loc EXCEPT ![p] = [NoLoc EXCEPT !.op = "list"]]
              /\ Respond(p, [Response(200) EXCEPT
                                !.stats = campaignCache[ListKeyOf(c)],
                                !.source = "cache"])
         ELSE /\ loc' = [loc EXCEPT ![p] = [NoLoc EXCEPT !.op = "list",
                                                         !.campaign = c]]
              /\ Goto(p, "list_query")
              /\ resp' = resp
  /\ UNCHANGED <<dbVars, cacheVars>>

\* db.execute(sqlQuery)
ListQuery(p) ==
  /\ MainFrame
  /\ pc[p] = "list_query"
  /\ loc' = [loc EXCEPT
               ![p].read = ListingOf(loc[p].campaign, campaigns, donations)]
  /\ Goto(p, "list_store")
  /\ UNCHANGED <<dbVars, cacheVars, resp>>

\* campaignCache.set(cacheKey, campaigns); return campaigns
ListStore(p) ==
  /\ MainFrame
  /\ pc[p] = "list_store"
  /\ campaignCache' =
       [campaignCache EXCEPT ![ListKeyOf(loc[p].campaign)] = loc[p].read]
  /\ Respond(p, [Response(200) EXCEPT !.stats = loc[p].read,
                                      !.source = "db"])
  /\ loc' = [loc EXCEPT ![p] = Finished(loc[p])]
  /\ UNCHANGED <<dbVars, donationCache>>

\* ---- getCampaignDonations (src/unnamed/part_001:216-290)

PageOf(c, donationTable) ==
  [kind |-> "page", ids |-> {d.id : d \in DonationsOf(c, donationTable)}]

\* donationCache.get(cacheKey)
PageStart(p) ==
  /\ MainFrame
  /\ pc[p] = "idle"
  /\ \E c \in CampaignIds :
       IF donationCache[PageKey(c)] # Absent
         THEN /\ loc' = [loc EXCEPT ![p] = [NoLoc EXCEPT !.op = "page"]]
              /\ Respond(p, [Response(200) EXCEPT
                                !.stats = donationCache[PageKey(c)],
                                !.source = "cache"])
         ELSE /\ loc' = [loc EXCEPT ![p] = [NoLoc EXCEPT !.op = "page",
                                                         !.campaign = c]]
              /\ Goto(p, "page_campaign")
              /\ resp' = resp
  /\ UNCHANGED <<dbVars, cacheVars>>

\* SELECT 1 FROM campaigns WHERE id = ? LIMIT 1
PageCheckCampaign(p) ==
  /\ MainFrame
  /\ pc[p] = "page_campaign"
  /\ IF loc[p].campaign \in campaigns
       THEN /\ Goto(p, "page_query")
            /\ UNCHANGED <<loc, resp>>
       ELSE /\ loc' = [loc EXCEPT
                         ![p] = Finished([loc[p] EXCEPT
                                            !.err = "Campaign not found"])]
            /\ Respond(p, Response(404))
  /\ UNCHANGED <<dbVars, cacheVars>>

\* the page query
PageQuery(p) ==
  /\ MainFrame
  /\ pc[p] = "page_query"
  /\ loc' = [loc EXCEPT ![p].read = PageOf(loc[p].campaign, donations)]
  /\ Goto(p, "page_store")
  /\ UNCHANGED <<dbVars, cacheVars, resp>>

\* the count query; donationCache.set(cacheKey, result); return result
PageStore(p) ==
  /\ MainFrame
  /\ pc[p] = "page_store"
  /\ donationCache' =
       [donationCache EXCEPT ![PageKey(loc[p].campaign)] = loc[p].read]
  /\ Respond(p, [Response(200) EXCEPT !.stats = loc[p].read,
                                      !.source = "db"])
  /\ loc' = [loc EXCEPT ![p] = Finished(loc[p])]
  /\ UNCHANGED <<dbVars, campaignCache>>

\* ---- GET /api/donations (src/app/api/donations/route.ts:19-100)

\* the donations of a donor, each with the total raised by its campaign
WalletDonationsOf(userId, donationTable) ==
  [kind |-> "wallet",
   rows |-> {[id |-> d.id,
              total_raised |->
                SumAmounts(DonationsOf(d.campaign_id, donationTable))] :
             d \in {x \in donationTable : x.donor_id = userId}}]

\* donationCache.get(cacheKey)
WalletStart(p) ==
  /\ MainFrame
  /\ pc[p] = "idle"
  /\ \E w \in Wallets :
       IF donationCache[WalletKey(w)] # Absent
         THEN /\ loc' = [loc EXCEPT ![p] = [NoLoc EXCEPT !.op = "wallet"]]
              /\ Respond(p, [Response(200) EXCEPT
                                !.stats = donationCache[WalletKey(w)],
                                !.source = "cache"])
         ELSE /\ loc' = [loc EXCEPT ![p] = [NoLoc EXCEPT !.op = "wallet",
                                                         !.wallet = w]]
              /\ Goto(p, "wal_user")
              /\ resp' = resp
  /\ UNCHANGED <<dbVars, cacheVars>>

\* SELECT id FROM users WHERE wallet_address = ?; no user: an empty list,
\* not cached
WalletFindUser(p) ==
  /\ MainFrame
  /\ pc[p] = "wal_user"
  /\ LET found == UsersByWallet(loc[p].wallet, users)
     IN IF found = {}
          THEN /\ Respond(p, [Response(200) EXCEPT
                                 !.stats = [kind |-> "wallet", rows |-> {}],
                                 !.source = "db"])
               /\ loc' = [loc EXCEPT ![p] = Finished(loc[p])]
          ELSE /\ loc' = [loc EXCEPT ![p].userId =
                                       (CHOOSE u \in found : TRUE).id]
               /\ Goto(p, "wal_query")
               /\ resp' = resp
  /\ UNCHANGED <<dbVars, cacheVars>>

\* db.execute(donationsQuery)
WalletQuery(p) ==
  /\ MainFrame
  /\ pc[p] = "wal_query"
  /\ loc' = [loc EXCEPT
               ![p].read = WalletDonationsOf(loc[p].userId, donations)]
  /\ Goto(p, "wal_store")
  /\ UNCHANGED <<dbVars, cacheVars, resp>>

\* donationCache.set(cacheKey, donations); the response
WalletStore(p) ==
  /\ MainFrame
  /\ pc[p] = "wal_store"
  /\ donationCache' =
       [donationCache EXCEPT ![WalletKey(loc[p].wallet)] = loc[p].read]
  /\ Respond(p, [Response(200) EXCEPT !.stats = loc[p].read,
                                      !.source = "db"])
  /\ loc' = [loc EXCEPT ![p] = [Finished(loc[p]) EXCEPT !.wallet = "none",
                                                        !.userId = "none"]]
  /\ UNCHANGED <<dbVars, campaignCache>>

\* ---- DELETE /api/campaigns (src/app/api/campaigns/route.ts:205-264)

DeleteStart(p) ==
  /\ MainFrame
  /\ pc[p] = "idle"
  /\ \E c \in CampaignIds, w \in Wallets :
       loc' = [loc EXCEPT ![p] = [NoLoc EXCEPT !.op = "delete",
                                               !.campaign = c,
                                               !.wallet = w]]
  /\ Goto(p, "del_check")
  /\ UNCHANGED <<dbVars, cacheVars, resp>>

\* SELECT id FROM campaigns WHERE id = ? AND wallet_address = ?
DeleteCheckOwner(p) ==
  /\ MainFrame
  /\ pc[p] = "del_check"
  /\ IF /\ loc[p].campaign \in campaigns
        /\ OwnerOf[loc[p].campaign] = loc[p].wallet
       THEN /\ Goto(p, "del_donations")
            /\ UNCHANGED <<loc, resp>>
       ELSE /\ Respond(p, Response(404))
            /\ loc' = [loc EXCEPT ![p] = Finished(loc[p])]
  /\ UNCHANGED <<dbVars, cacheVars>>

\* DELETE FROM donations WHERE campaign_id = ?
\* (erased: a request past its commit and before its summary query loses
\* the row it inserted; removed: the rows this statement deleted)
DeleteDonations(p) ==
  /\ MainFrame
  /\ pc[p] = "del_donations"
  /\ dbLock = NoProc
  /\ donations' = donations \ DonationsOf(loc[p].campaign, donations)
  /\ loc' = [q \in Procs |->
               IF q = p
                 THEN [loc[p] EXCEPT
                         !.removed = DonationsOf(loc[p].campaign, donations)]
               ELSE IF /\ pc[q] \in {"rec_invalidate", "sum_query"}
                       /\ loc[q].campaign = loc[p].campaign
                 THEN [loc[q] EXCEPT !.erased = TRUE]
                 ELSE loc[q]]
  /\ Goto(p, "del_campaign")
  /\ UNCHANGED <<campaigns, users, dbLock, foreignKeys, cacheVars, resp>>

\* DELETE FROM campaigns WHERE id = ?: rejected when foreign keys are
\* enforced and a donation row still points at the campaign
DeleteCampaign(p) ==
  /\ MainFrame
  /\ pc[p] = "del_campaign"
  /\ dbLock = NoProc
  /\ IF foreignKeys /\ DonationsOf(loc[p].campaign, donations) # {}
       THEN /\ Respond(p, Response(500))
            /\ campaigns' = campaigns
       ELSE /\ Respond(p, Response(200))
            /\ campaigns' = campaigns \ {loc[p].campaign}
  /\ loc' = [loc EXCEPT ![p] = Finished(loc[p])]
  /\ UNCHANGED <<users, donations, dbLock, foreignKeys, cacheVars>>

\* A statement of the handler rejects: the catch answers 500.
DeleteStatementFails(p) ==
  /\ MainFrame
  /\ pc[p] \in {"del_check", "del_donations", "del_campaign"}
  /\ Respond(p, Response(500))
  /\ loc' = [loc EXCEPT ![p] = Finished(loc[p])]
  /\ UNCHANGED <<dbVars, cacheVars>>

\* ---- DELETE /api/campaigns/[id]
\* (src/app/api/campaigns/[id]/route.ts:161-198)

\* The request carries the id only; wallet is the wallet of the caller,
\* which the handler never reads.
DeleteByIdStart(p) ==
  /\ MainFrame
  /\ pc[p] = "idle"
  /\ \E c \in CampaignIds, w \in Wallets :
       loc' = [loc EXCEPT ![p] = [NoLoc EXCEPT !.op = "deleteById",
                                               !.campaign = c,
                                               !.wallet = w]]
  /\ Goto(p, "dbi_check")
  /\ UNCHANGED <<dbVars, cacheVars, resp>>

\* SELECT id FROM campaigns WHERE id = ?
DeleteByIdCheck(p) ==
  /\ MainFrame
  /\ pc[p] = "dbi_check"
  /\ IF loc[p].campaign \in campaigns
       THEN /\ Goto(p, "dbi_campaign")
            /\ UNCHANGED <<loc, resp>>
       ELSE /\ Respond(p, Response(404))
            /\ loc' = [loc EXCEPT ![p] = Finished(loc[p])]
  /\ UNCHANGED <<dbVars, cacheVars>>

\* DELETE FROM campaigns WHERE id = ?: rejected when foreign keys are
\* enforced and a donation row still points at the campaign
DeleteByIdCampaign(p) ==
  /\ MainFrame
  /\ pc[p] = "dbi_campaign"
  /\ dbLock = NoProc
  /\ IF foreignKeys /\ DonationsOf(loc[p].campaign, donations) # {}
       THEN /\ Respond(p, Response(500))
            /\ campaigns' = campaigns
       ELSE /\ Respond(p, Response(200))
            /\ campaigns' = campaigns \ {loc[p].campaign}
  /\ loc' = [loc EXCEPT ![p] = Finished(loc[p])]
  /\ UNCHANGED <<users, donations, dbLock, foreignKeys, cacheVars>>

\* A statement of the handler rejects: the catch answers 500.
DeleteByIdStatementFails(p) ==
  /\ MainFrame
  /\ pc[p] \in {"dbi_check", "dbi_campaign"}
  /\ Respond(p, Response(500))
  /\ loc' = [loc EXCEPT ![p] = Finished(loc[p])]
  /\ UNCHANGED <<dbVars, cacheVars>>

MainNext ==
  \E p \in Procs :
    \/ RecordStart(p) \/ RecordBegin(p) \/ RecordCheckCampaign(p)
    \/ RecordFindUser(p) \/ RecordInsertUser(p) \/ RecordInsertDonation(p)
    \/ RecordCommit(p) \/ RecordStatementFails(p) \/ RecordRollback(p)
    \/ RecordInvalidate(p) \/ SummaryQuery(p) \/ SummaryQueryFails(p)
    \/ SummaryStore(p)
    \/ LegacyStart(p) \/ LegacyCheckSignature(p) \/ LegacyCheckCampaign(p)
    \/ LegacyFindUser(p) \/ LegacyInsertUser(p) \/ LegacyTouchUser(p)
    \/ LegacyInsertDonation(p) \/ LegacyStatementFails(p)
    \/ ListStart(p) \/ ListQuery(p) \/ ListStore(p)
    \/ PageStart(p) \/ PageCheckCampaign(p) \/ PageQuery(p) \/ PageStore(p)
    \/ WalletStart(p) \/ WalletFindUser(p) \/ WalletQuery(p) \/ WalletStore(p)
    \/ DeleteStart(p) \/ DeleteCheckOwner(p) \/ DeleteDonations(p)
    \/ DeleteCampaign(p) \/ DeleteStatementFails(p)
    \/ DeleteByIdStart(p) \/ DeleteByIdCheck(p) \/ DeleteByIdCampaign(p)
    \/ DeleteByIdStatementFails(p)

(***************************************************************************)
(* getCampaignDonationsSummary and its cache entry against the clock       *)
(* (src/unnamed/part_001:295-346, src/lib/cache.ts:21-58)                  *)
(***************************************************************************)

\* How often the clock advances and how many donations are committed.
SummaryMaxTicks == 3
MaxCommits == 2

\* The calls of getCampaignDonationsSummary in flight.
Readers == {"r1", "r2"}

NoSummaryEntry == [data |-> -1, timestamp |-> -1, queriedAt |-> -1]
NoSummaryRead ==
  [source |-> "none", value |-> -1, age |-> 0, latency |-> 0,
   supersededFor |-> 0]
NoRow == [value |-> -1, queriedAt |-> -1]

\* Every donation is of amount 1: SUM(amount) is the number of commits.
TotalRaised(commits) == Len(commits)

\* For how long, at time t, the total v has no longer been the campaign's
\* total (0 while it still is).
SupersededFor(v, commits, t) ==
  IF Len(commits) > v THEN t - commits[v + 1] ELSE 0

SummaryIdle ==
  /\ tsNow = 0
  /\ tsTicks = 0
  /\ tsCommits = << >>
  /\ tsInval = 0
  /\ tsEntry = NoSummaryEntry
  /\ tsPc = [r \in Readers |-> "off"]
  /\ tsRead = [r \in Readers |-> NoRow]
  /\ tsLast = NoSummaryRead

SummaryInit ==
  /\ tsNow = 0
  /\ tsTicks = 0
  /\ tsCommits = << >>
  /\ tsInval = 0
  /\ tsEntry = NoSummaryEntry
  /\ tsPc = [r \in Readers |-> "idle"]
  /\ tsRead = [r \in Readers |-> NoRow]
  /\ tsLast = NoSummaryRead

\* time passes
SummaryClockAdvances ==
  /\ SummaryFrame
  /\ tsTicks < SummaryMaxTicks
  /\ \E d \in ClockSteps : tsNow' = tsNow + d
  /\ tsTicks' = tsTicks + 1
  /\ tsLast' = NoSummaryRead
  /\ UNCHANGED <<tsCommits, tsInval, tsEntry, tsPc, tsRead>>

\* A donation of the campaign commits: through POST /api/donations, which
\* goes on to delete the summary key (route.ts:179-181), or through the
\* earlier POST (part_014:200-212), which deletes nothing.
DonationCommitted ==
  /\ SummaryFrame
  /\ Len(tsCommits) < MaxCommits
  /\ tsCommits' = Append(tsCommits, tsNow)
  /\ \E invalidates \in BOOLEAN :
       tsInval' = IF invalidates THEN tsInval + 1 ELSE tsInval
  /\ tsLast' = NoSummaryRead
  /\ UNCHANGED <<tsNow, tsTicks, tsEntry, tsPc, tsRead>>

\* donationCache.delete(donationSummaryKey)
SummaryKeyDeleted ==
  /\ SummaryFrame
  /\ tsInval > 0
  /\ tsInval' = tsInval - 1
  /\ tsEntry' = NoSummaryEntry
  /\ tsLast' = NoSummaryRead
  /\ UNCHANGED <<tsNow, tsTicks, tsCommits, tsPc, tsRead>>

\* donationCache.get(cacheKey): a live entry is returned, an expired one is
\* deleted, and without an entry the query is sent
TimedSummaryGet(r) ==
  /\ SummaryFrame
  /\ tsPc[r] = "idle"
  /\ IF tsEntry # NoSummaryEntry /\ ~IsExpired(tsEntry, tsNow)
       THEN /\ tsLast' =
                 [source |-> "cache", value |-> tsEntry.data,
                  age |-> tsNow - tsEntry.timestamp,
                  latency |-> tsEntry.timestamp - tsEntry.queriedAt,
                  supersededFor |->
                    SupersededFor(tsEntry.data, tsCommits, tsNow)]
            /\ UNCHANGED <<tsEntry, tsPc>>
       ELSE /\ tsEntry' = NoSummaryEntry
            /\ tsPc' = [tsPc EXCEPT ![r] = "query"]
            /\ tsLast' = NoSummaryRead
  /\ UNCHANGED <<tsNow, tsTicks, tsCommits, tsInval, tsRead>>

\* the database evaluates SELECT ... COALESCE(SUM(amount), 0) ...
TimedSummaryQuery(r) ==
  /\ SummaryFrame
  /\ tsPc[r] = "query"
  /\ tsRead' = [tsRead EXCEPT ![r] = [value |-> TotalRaised(tsCommits),
                                      queriedAt |-> tsNow]]
  /\ tsPc' = [tsPc EXCEPT ![r] = "store"]
  /\ tsLast' = NoSummaryRead
  /\ UNCHANGED <<tsNow, tsTicks, tsCommits, tsInval, tsEntry>>

\* donationCache.set(cacheKey, summary); return summary
TimedSummaryStore(r) ==
  /\ SummaryFrame
  /\ tsPc[r] = "store"
  /\ tsEntry' = [data |-> tsRead[r].value, timestamp |-> tsNow,
                 queriedAt |-> tsRead[r].queriedAt]
  /\ tsLast' = [source |-> "db", value |-> tsRead[r].value, age |-> 0,
                latency |-> tsNow - tsRead[r].queriedAt,
                supersededFor |->
                  SupersededFor(tsRead[r].value, tsCommits, tsNow)]
  /\ tsRead' = [tsRead EXCEPT ![r] = NoRow]
  /\ tsPc' = [tsPc EXCEPT ![r] = "idle"]
  /\ UNCHANGED <<tsNow, tsTicks, tsCommits, tsInval>>

SummaryNext ==
  \/ SummaryClockAdvances
  \/ DonationCommitted
  \/ SummaryKeyDeleted
  \/ \E r \in Readers :
       TimedSummaryGet(r) \/ TimedSummaryQuery(r) \/ TimedSummaryStore(r)

UpperCase == {"H", "M", "D"}
LowerCase == {"a", "d", "e", "g", "h", "i", "l", "m", "o", "p", "y"}
DigitChars == {"0", "1", "2", "3", "4", "5", "6", "7", "8", "9"}
SpaceChar == " "

\* String.prototype.toLowerCase, one character
LowerChar(c) ==
  CASE c = "H" -> "h"
    [] c = "M" -> "m"
    [] c = "D" -> "d"
    [] OTHER -> c

ToLowerCase(s) == [i \in 1..Len(s) |-> LowerChar(s[i])]

\* \w and \s of a regular expression
IsWordChar(c) == c \in UpperCase \cup LowerCase \cup DigitChars \cup {"_"}
IsSpaceChar(c) == c = SpaceChar

\* s.replace(/[^\w\s-]/g, '')
RECURSIVE StripSpecial(_)
StripSpecial(s) ==
  IF s = << >> THEN << >>
  ELSE IF IsWordChar(Head(s)) \/ IsSpaceChar(Head(s)) \/ Head(s) = "-"
         THEN <<Head(s)>> \o StripSpecial(Tail(s))
         ELSE StripSpecial(Tail(s))

\* s.replace(/[^\w\s]/gi, ''): the hyphen goes too
RECURSIVE StripNonWord(_)
StripNonWord(s) ==
  IF s = << >> THEN << >>
  ELSE IF IsWordChar(Head(s)) \/ IsSpaceChar(Head(s))
         THEN <<Head(s)>> \o StripNonWord(Tail(s))
         ELSE StripNonWord(Tail(s))

IsSeparator(c) == IsSpaceChar(c) \/ c = "_" \/ c = "-"

\* s.replace(/[\s_-]+/g, '-'): every run of separators becomes one hyphen
RECURSIVE CollapseSeparators(_)
CollapseSeparators(s) ==
  IF s = << >> THEN << >>
  ELSE IF IsSeparator(Head(s))
         THEN IF Len(s) > 1 /\ IsSeparator(s[2])
                THEN CollapseSeparators(Tail(s))
                ELSE <<"-">> \o CollapseSeparators(Tail(s))
         ELSE <<Head(s)>> \o CollapseSeparators(Tail(s))

\* s.replace(/\s+/g, '-'): every run of white space becomes one hyphen
RECURSIVE CollapseSpaces(_)
CollapseSpaces(s) ==
  IF s = << >> THEN << >>
  ELSE IF IsSpaceChar(Head(s))
         THEN IF Len(s) > 1 /\ IsSpaceChar(s[2])
                THEN CollapseSpaces(Tail(s))
                ELSE <<"-">> \o CollapseSpaces(Tail(s))
         ELSE <<Head(s)>> \o CollapseSpaces(Tail(s))

\* s.replace(/^-+|-+$/g, '')
RECURSIVE TrimHyphens(_)
TrimHyphens(s) ==
  IF s = << >> THEN << >>
  ELSE IF Head(s) = "-" THEN TrimHyphens(Tail(s))
  ELSE IF s[Len(s)] = "-" THEN TrimHyphens(SubSeq(s, 1, Len(s) - 1))
  ELSE s

\* String.prototype.trim
RECURSIVE Trim(_)
Trim(s) ==
  IF s = << >> THEN << >>
  ELSE IF IsSpaceChar(Head(s)) THEN Trim(Tail(s))
  ELSE IF IsSpaceChar(s[Len(s)]) THEN Trim(SubSeq(s, 1, Len(s) - 1))
  ELSE s

\* s.padEnd(n, c) with a one-character c
RECURSIVE PadEnd(_, _, _)
PadEnd(s, n, c) == IF Len(s) >= n THEN s ELSE PadEnd(s \o <<c>>, n, c)

\* slugify(title), route.ts:570-576
Slugify(title) ==
  TrimHyphens(CollapseSeparators(StripSpecial(ToLowerCase(title))))

\* title.toLowerCase().replace(/[^\w\s]/gi, '').replace(/\s+/g, '-')
InlineSlug(title) == CollapseSpaces(StripNonWord(ToLowerCase(title)))

\* `${slug}-${counter}`
CounterText(k) == <<"1", "2", "3", "4", "5", "6", "7", "8", "9">>[k]
Suffixed(s, k) == s \o <<"-">> \o <<CounterText(k)>>

\* counter++ with a step of two
NextCounterSkipping(k) == k + 2
\* counter++
NextCounter(k) == k + 1

\* let counter = 1; while (existingSlugs.includes(newSlug)) counter++
RECURSIVE CounterFrom(_, _, _)
CounterFrom(s, existing, k) ==
  IF Suffixed(s, k) \in existing
    THEN CounterFrom(s, existing, NextCounter(k))
    ELSE Suffixed(s, k)

FirstFreeSlug(s, existing) ==
  IF s \in existing THEN CounterFrom(s, existing, 1) ELSE s

\* the slug of generateSlug before the search for a free one: at least
\* three characters
PaddedSlug(title) ==
  LET slug ==
        TrimHyphens(CollapseSeparators(StripSpecial(Trim(ToLowerCase(title)))))
  IN IF Len(slug) < 3
       THEN PadEnd(slug, 3, IF slug = << >> THEN "a" ELSE slug[1])
       ELSE slug

\* generateSlug(title, existingSlugs), part_006:104-135
GenerateSlug(title, existing) ==
  IF title = << >> THEN << >> ELSE FirstFreeSlug(PaddedSlug(title), existing)

\* ---- the two counter allocators applied to a title and a table of slugs

HelpMyDog == <<"H", "e", "l", "p", " ", "M", "y", " ", "D", "o", "g">>
OnlySymbols == <<"?", "!", "?", "!", "?">>
PaddedHelpMyDog ==
  <<" ", "H", "e", "l", "p", "_", "M", "y", "-", "-", "D", "o", "g", " ">>
ShortTitle == <<"H", "i">>
SlugTitles == {HelpMyDog, OnlySymbols, PaddedHelpMyDog, ShortTitle}

HelpMyDogSlug == <<"h", "e", "l", "p", "-", "m", "y", "-", "d", "o", "g">>
SlugPool ==
  {HelpMyDogSlug, Suffixed(HelpMyDogSlug, 1), Suffixed(HelpMyDogSlug, 2),
   <<"a", "a", "a">>, <<"h", "i", "h">>, << >>}

\* route.ts:489-520 against a table that does not change meanwhile:
\* slugify(title), then -1, -2, ... until a SELECT finds no row
AllocateSlug(title, existing) == FirstFreeSlug(Slugify(title), existing)

\* Math.random().toString(36).substring(2, 7)
RandomSuffixes == {<<"k", "7">>, <<"q", "2">>}

\* [slug]/route.ts:133-154 against a table that does not change meanwhile:
\* the inline slug of the title, with a random suffix when it is taken
RenameSlug(title, existing, suffix) ==
  IF InlineSlug(title) \in existing
    THEN InlineSlug(title) \o <<"-">> \o suffix
    ELSE InlineSlug(title)

SlugIdle ==
  /\ slPc = "off"
  /\ slTitle = << >>
  /\ slExisting = {}
  /\ slResult = << >>

SlugInit ==
  /\ slPc = "input"
  /\ slTitle \in SlugTitles
  /\ slExisting \in SUBSET SlugPool
  /\ slResult = << >>

\* generateSlug(title, existingSlugs)
GenerateSlugCalled ==
  /\ SlugFrame
  /\ slPc = "input"
  /\ slResult' = GenerateSlug(slTitle, slExisting)
  /\ slPc' = "generateSlug"
  /\ UNCHANGED <<slTitle, slExisting>>

\* the slug allocation of POST /api/campaigns
AllocateSlugCalled ==
  /\ SlugFrame
  /\ slPc = "input"
  /\ slResult' = AllocateSlug(slTitle, slExisting)
  /\ slPc' = "allocate"
  /\ UNCHANGED <<slTitle, slExisting>>

\* the slug allocation of PATCH /api/campaigns/[slug]
RenameSlugCalled ==
  /\ SlugFrame
  /\ slPc = "input"
  /\ \E x \in RandomSuffixes :
       slResult' = RenameSlug(slTitle, slExisting, x)
  /\ slPc' = "rename"
  /\ UNCHANGED <<slTitle, slExisting>>

SlugNext == GenerateSlugCalled \/ AllocateSlugCalled \/ RenameSlugCalled

\* The slug before the search for a free one.
NormalizedSlug ==
  IF slPc = "generateSlug" THEN PaddedSlug(slTitle) ELSE Slugify(slTitle)

\* C13: the counter allocators return the normalized slug s unchanged when
\* it is free, and otherwise s-k for the smallest k >= 1 such that s-k is
\* free; "Help My Dog" gives help-my-dog, and help-my-dog-1 when that is
\* taken.
C13_SmallestFreeCounter ==
  slPc \in {"generateSlug", "allocate"} =>
    LET s == NormalizedSlug
    IN /\ s \notin slExisting => slResult = s
       /\ s \in slExisting =>
            \E k \in 1..9 :
              /\ slResult = Suffixed(s, k)
              /\ slResult \notin slExisting
              /\ \A j \in 1..(k - 1) : Suffixed(s, j) \in slExisting
       /\ (slTitle = HelpMyDog /\ slExisting = {}) =>
            slResult = HelpMyDogSlug
       /\ (slTitle = HelpMyDog /\ slExisting = {HelpMyDogSlug}) =>
            slResult = Suffixed(HelpMyDogSlug, 1)

\* "Help My Dog" with help-my-dog and help-my-dog-1 taken gives
\* help-my-dog-2.
C13_Witness ==
  /\ slPc = "allocate"
  /\ slTitle = HelpMyDog
  /\ {HelpMyDogSlug, Suffixed(HelpMyDogSlug, 1)} \subseteq slExisting
  /\ slResult = Suffixed(HelpMyDogSlug, 2)

(***************************************************************************)
(* The campaign writers: the three POST handlers that create a campaign    *)
(* and the two PATCH handlers that rename one                              *)
(***************************************************************************)

\* The rows of table campaigns: id -> [slug, title, goal, wallet_address,
\* updated_at] (the row of an id that is not in the table is NoCampaignRow).
CampaignRowIds == CampaignIds \cup {"c3", "c4"}
NoTitle == << >>
NoGoal == 0
NoCampaignRow ==
  [slug |-> << >>, title |-> NoTitle, goal |-> NoGoal,
   wallet_address |-> "none", updated_at |-> 0]

\* How far the clock of the writers runs.
MaxWriterTicks == 1

RowsIdle ==
  /\ campaignRow = [c \in CampaignRowIds |-> NoCampaignRow]
  /\ wrNow = 0

\* Campaign c1 of wallet w1 is titled "Help My Dog", has the slug
\* help-my-dog and the goal 3, and was last written at time 0; it is time 1.
RowsInit ==
  /\ campaignRow =
       [c \in CampaignRowIds |->
          IF c = "c1"
            THEN [slug |-> HelpMyDogSlug, title |-> HelpMyDog, goal |-> 3,
                  wallet_address |-> OwnerOf[c], updated_at |-> 0]
            ELSE NoCampaignRow]
  /\ wrNow = 1

\* uuidv4(): the id of the campaign a request creates
NewCampaignId(p) == IF p = "p1" THEN "c3" ELSE "c4"

\* What the callers send.
CreateTitles == {HelpMyDog, OnlySymbols}
AaaSlug == <<"a", "a", "a">>
GivenSlugs == {HelpMyDogSlug, AaaSlug}
PatchIds == {"c1", "c3"}
PatchTitles == CreateTitles \cup {NoTitle}
PatchGoals == {NoGoal, 2}

SlugUniqueViolation == "UNIQUE constraint failed: campaigns.slug"

\* SELECT id FROM campaigns WHERE slug = ?
SlugTaken(s) == \E c \in campaigns : campaignRow[c].slug = s
\* SELECT id FROM campaigns WHERE slug = ? AND id != ?
SlugTakenByOther(s, id) ==
  \E c \in campaigns \ {id} : campaignRow[c].slug = s
\* SELECT slug FROM campaigns WHERE id != ?
SlugsOfOthers(id) == {campaignRow[c].slug : c \in campaigns \ {id}}

\* campaignCache.getKeys().filter(key => key.includes(walletAddress))
DeletedWalletKeys(w) ==
  {k \in CampaignCacheKeys : campaignCache[k] # Absent /\ KeyIncludes(k, w)}

\* The field error of the body of a 500: the catch blocks of route.ts:194-202,
\* part_015:142-153, [id]/route.ts:151-157 and [slug]/route.ts:192-205 put
\* error.message or String(error) there, the catch of route.ts:559-567 does
\* not.
CatchBody(op, err) == IF op = "createCounter" THEN "none" ELSE err

Failure(op, err) == [Response(500) EXCEPT !.error = CatchBody(op, err)]

\* ---- POST /api/campaigns (src/app/api/campaigns/route.ts:65-203)

CreateStart(p) ==
  /\ WriterFrame
  /\ pc[p] = "idle"
  /\ \E s \in GivenSlugs, w \in Wallets :
       loc' = [loc EXCEPT ![p] = [NoLoc EXCEPT !.op = "create",
                                               !.title = HelpMyDog,
                                               !.slug = s, !.wallet = w]]
  /\ Goto(p, "cr_slugcheck")
  /\ UNCHANGED <<dbVars, cacheVars, rowVars, resp>>

\* SELECT id FROM campaigns WHERE slug = ?: 409 when a row comes back
CreateCheckSlug(p) ==
  /\ WriterFrame
  /\ pc[p] = "cr_slugcheck"
  /\ IF SlugTaken(loc[p].slug)
       THEN /\ Respond(p, Response(409))
            /\ loc' = [loc EXCEPT ![p] = Finished(loc[p])]
       ELSE /\ Goto(p, "cr_user")
            /\ UNCHANGED <<loc, resp>>
  /\ UNCHANGED <<dbVars, cacheVars, rowVars>>

\* ---- the same route's other POST (route.ts:443-568): counter suffix

CounterCreateStart(p) ==
  /\ WriterFrame
  /\ pc[p] = "idle"
  /\ \E t \in CreateTitles, w \in Wallets :
       loc' = [loc EXCEPT ![p] = [NoLoc EXCEPT !.op = "createCounter",
                                               !.title = t, !.wallet = w]]
  /\ Goto(p, "cr_user")
  /\ UNCHANGED <<dbVars, cacheVars, rowVars, resp>>

\* let slug = data.slug || slugify(data.title); SELECT ... WHERE slug = ?
CounterCreateCheckSlug(p) ==
  /\ WriterFrame
  /\ pc[p] = "cc_slugcheck"
  /\ LET slug == Slugify(loc[p].title)
     IN IF SlugTaken(slug)
          THEN /\ loc' = [loc EXCEPT ![p].slug = slug, ![p].counter = 1]
               /\ Goto(p, "cc_loop")
          ELSE /\ loc' = [loc EXCEPT ![p].slug = slug]
               /\ Goto(p, "cr_inscamp")
  /\ UNCHANGED <<dbVars, cacheVars, rowVars, resp>>

\* one turn of while (true): SELECT ... WHERE slug = newSlug
CounterCreateNextSlug(p) ==
  /\ WriterFrame
  /\ pc[p] = "cc_loop"
  /\ LET newSlug == Suffixed(loc[p].slug, loc[p].counter)
     IN IF SlugTaken(newSlug)
          THEN /\ loc' = [loc EXCEPT
                            ![p].counter = NextCounter(loc[p].counter)]
               /\ pc' = pc
          ELSE /\ loc' = [loc EXCEPT ![p].slug = newSlug, ![p].counter = 0]
               /\ Goto(p, "cr_inscamp")
  /\ UNCHANGED <<dbVars, cacheVars, rowVars, resp>>

\* ---- the POST without CSRF check (src/unnamed/part_015:26-151): random
\* suffix

RandomCreateStart(p) ==
  /\ WriterFrame
  /\ pc[p] = "idle"
  /\ \E t \in CreateTitles, w \in Wallets :
       loc' = [loc EXCEPT ![p] = [NoLoc EXCEPT !.op = "createRandom",
                                               !.title = t, !.wallet = w]]
  /\ Goto(p, "cr_user")
  /\ UNCHANGED <<dbVars, cacheVars, rowVars, resp>>

\* slug from the title; SELECT ... WHERE slug = ?; a taken slug gets a
\* random suffix and is not looked up again
RandomCreateCheckSlug(p) ==
  /\ WriterFrame
  /\ pc[p] = "rc_slugcheck"
  /\ LET slug == InlineSlug(loc[p].title)
     IN IF SlugTaken(slug)
          THEN \E x \in RandomSuffixes :
                 loc' = [loc EXCEPT ![p].slug = slug \o <<"-">> \o x]
          ELSE loc' = [loc EXCEPT ![p].slug = slug]
  /\ Goto(p, "cr_inscamp")
  /\ UNCHANGED <<dbVars, cacheVars, rowVars, resp>>

\* ---- steps the three POST handlers share

AfterUser(op) ==
  CASE op = "create" -> "cr_inscamp"
    [] op = "createCounter" -> "cc_slugcheck"
    [] OTHER -> "rc_slugcheck"

\* SELECT id FROM users WHERE wallet_address = ?
CreateFindUser(p) ==
  /\ WriterFrame
  /\ pc[p] = "cr_user"
  /\ LET found == UsersByWallet(loc[p].wallet, users)
     IN IF found = {}
          THEN /\ loc' = [loc EXCEPT ![p].userId = NewUserId(p)]
               /\ Goto(p, "cr_insuser")
          ELSE /\ loc' = [loc EXCEPT ![p].userId =
                                       (CHOOSE u \in found : TRUE).id]
               /\ Goto(p, AfterUser(loc[p].op))
  /\ UNCHANGED <<dbVars, cacheVars, rowVars, resp>>

\* INSERT INTO users ...: its own statement, committed when it returns
CreateInsertUser(p) ==
  /\ WriterFrame
  /\ pc[p] = "cr_insuser"
  /\ dbLock = NoProc
  /\ IF WalletTaken(loc[p].wallet, users)
       THEN /\ loc' = [loc EXCEPT
                         ![p] = Finished([loc[p] EXCEPT
                                            !.err = WalletUniqueViolation])]
            /\ Respond(p, Failure(loc[p].op, WalletUniqueViolation))
            /\ users' = users
       ELSE /\ users' = users \cup {UserRow(loc[p].userId, loc[p].wallet)}
            /\ loc' = [loc EXCEPT ![p].newUser = TRUE]
            /\ Goto(p, AfterUser(loc[p].op))
            /\ resp' = resp
  /\ UNCHANGED <<campaigns, donations, dbLock, foreignKeys, cacheVars,
                 rowVars>>

\* INSERT INTO campaigns (...): slug is UNIQUE.  On success the handler of
\* route.ts:65-203 deletes the campaignCache keys that contain the wallet
\* address, and all three answer with the id and the slug.
CreateInsertCampaign(p) ==
  /\ WriterFrame
  /\ pc[p] = "cr_inscamp"
  /\ dbLock = NoProc
  /\ IF SlugTaken(loc[p].slug)
       THEN /\ loc' = [loc EXCEPT
                         ![p] = Finished([loc[p] EXCEPT
                                            !.err = SlugUniqueViolation])]
            /\ Respond(p, Failure(loc[p].op, SlugUniqueViolation))
            /\ UNCHANGED <<campaigns, campaignRow, campaignCache>>
       ELSE /\ campaigns' = campaigns \cup {NewCampaignId(p)}
            /\ campaignRow' =
                 [campaignRow EXCEPT
                    ![NewCampaignId(p)] = [slug |-> loc[p].slug,
                                           title |-> loc[p].title,
                                           goal |-> 1,
                                           wallet_address |-> loc[p].wallet,
                                           updated_at |-> wrNow]]
            /\ campaignCache' =
                 [k \in CampaignCacheKeys |->
                    IF loc[p].op = "create"
                       /\ k \in DeletedWalletKeys(loc[p].wallet)
                      THEN Absent ELSE campaignCache[k]]
            /\ loc' = [loc EXCEPT
                         ![p] = [Finished(loc[p]) EXCEPT
                                   !.id = NewCampaignId(p)]]
            /\ Respond(p, Response(IF loc[p].op = "create"
                                     THEN 200 ELSE 201))
  /\ UNCHANGED <<users, donations, dbLock, foreignKeys, donationCache, wrNow>>

\* A statement of the handler rejects: the catch answers 500.
CreateStatementFails(p) ==
  /\ WriterFrame
  /\ pc[p] \in {"cr_slugcheck", "cr_user", "cr_insuser", "cr_inscamp",
                "cc_slugcheck", "cc_loop", "rc_slugcheck"}
  /\ loc' = [loc EXCEPT ![p] = Finished([loc[p] EXCEPT !.err = "SQLITE_ERROR"])]
  /\ Respond(p, Failure(loc[p].op, "SQLITE_ERROR"))
  /\ UNCHANGED <<dbVars, cacheVars, rowVars>>

\* ---- PATCH /api/campaigns/[id] (src/app/api/campaigns/[id]/route.ts:49-158)

\* The row after UPDATE campaigns SET <the fields of the patch> WHERE id = ?
\* without updated_at.
PatchedRowNoStamp(row, l, stamp) ==
  [slug |-> IF l.hasSlug THEN l.slug ELSE row.slug,
   title |-> IF l.title # NoTitle THEN l.title ELSE row.title,
   goal |-> IF l.goal # NoGoal THEN l.goal ELSE row.goal,
   wallet_address |-> row.wallet_address,
   updated_at |-> row.updated_at]
\* The row after UPDATE campaigns SET <the fields of the patch>,
\* updated_at = ? WHERE id = ?
PatchedRow(row, l, stamp) ==
  [slug |-> IF l.hasSlug THEN l.slug ELSE row.slug,
   title |-> IF l.title # NoTitle THEN l.title ELSE row.title,
   goal |-> IF l.goal # NoGoal THEN l.goal ELSE row.goal,
   wallet_address |-> row.wallet_address,
   updated_at |-> stamp]

PatchByIdStart(p) ==
  /\ WriterFrame
  /\ pc[p] = "idle"
  /\ \E c \in PatchIds, t \in PatchTitles, g \in PatchGoals, k \in BOOLEAN :
       loc' = [loc EXCEPT ![p] = [NoLoc EXCEPT !.op = "patchById",
                                               !.id = c, !.title = t,
                                               !.goal = g, !.keep = k]]
  /\ Goto(p, "pi_select")
  /\ UNCHANGED <<dbVars, cacheVars, rowVars, resp>>

\* SELECT * FROM campaigns WHERE id = ?; with no title in the body no other
\* statement precedes the test for an empty list of fields
PatchByIdSelect(p) ==
  /\ WriterFrame
  /\ pc[p] = "pi_select"
  /\ IF loc[p].id \notin campaigns
       THEN /\ Respond(p, Response(404))
            /\ loc' = [loc EXCEPT ![p] = Finished(loc[p])]
     ELSE IF loc[p].title = NoTitle /\ loc[p].goal = NoGoal
       THEN /\ Respond(p, Response(400))
            /\ loc' = [loc EXCEPT ![p] = Finished(loc[p])]
       ELSE /\ loc' = [loc EXCEPT
                         ![p].oldSlug = campaignRow[loc[p].id].slug,
                         ![p].oldTitle = campaignRow[loc[p].id].title]
            /\ Goto(p, IF /\ loc[p].title # NoTitle
                          /\ loc[p].title # campaignRow[loc[p].id].title
                          /\ ~loc[p].keep
                         THEN "pi_slugs" ELSE "pi_update")
            /\ resp' = resp
  /\ UNCHANGED <<dbVars, cacheVars, rowVars>>

\* SELECT slug FROM campaigns WHERE id != ?; body.slug = generateSlug(...)
PatchByIdListSlugs(p) ==
  /\ WriterFrame
  /\ pc[p] = "pi_slugs"
  /\ LET slug == GenerateSlug(loc[p].title, SlugsOfOthers(loc[p].id))
     IN /\ loc' = [loc EXCEPT ![p].slug = slug, ![p].hasSlug = TRUE]
        /\ Goto(p, IF slug # << >> /\ slug # loc[p].oldSlug
                     THEN "pi_check" ELSE "pi_update")
  /\ UNCHANGED <<dbVars, cacheVars, rowVars, resp>>

\* SELECT id FROM campaigns WHERE slug = ? AND id != ?
PatchByIdCheckSlug(p) ==
  /\ WriterFrame
  /\ pc[p] = "pi_check"
  /\ Goto(p, IF SlugTakenByOther(loc[p].slug, loc[p].id)
               THEN "pi_regenerate" ELSE "pi_update")
  /\ UNCHANGED <<dbVars, cacheVars, rowVars, loc, resp>>

\* SELECT slug FROM campaigns; body.slug = generateSlug(...)
PatchByIdRegenerate(p) ==
  /\ WriterFrame
  /\ pc[p] = "pi_regenerate"
  /\ loc' = [loc EXCEPT
               ![p].slug = GenerateSlug(loc[p].title,
                                        SlugsOfOthers("none"))]
  /\ Goto(p, "pi_update")
  /\ UNCHANGED <<dbVars, cacheVars, rowVars, resp>>

\* UPDATE campaigns SET <fields>, updated_at = ? WHERE id = ?, then the
\* SELECT of the updated row for the answer
PatchByIdUpdate(p) ==
  /\ WriterFrame
  /\ pc[p] = "pi_update"
  /\ dbLock = NoProc
  /\ IF loc[p].hasSlug /\ SlugTakenByOther(loc[p].slug, loc[p].id)
       THEN /\ loc' = [loc EXCEPT
                         ![p] = Finished([loc[p] EXCEPT
                                            !.err = SlugUniqueViolation])]
            /\ Respond(p, Failure(loc[p].op, SlugUniqueViolation))
            /\ campaignRow' = campaignRow
       ELSE /\ campaignRow' =
                 [campaignRow EXCEPT
                    ![loc[p].id] = PatchedRow(@, loc[p], wrNow)]
            /\ loc' = [loc EXCEPT ![p] = Finished(loc[p])]
            /\ Respond(p, Response(200))
  /\ UNCHANGED <<dbVars, cacheVars, wrNow>>

\* ---- PATCH /api/campaigns/[slug]
\* (src/app/api/campaigns/[slug]/route.ts:70-205)

PatchBySlugStart(p) ==
  /\ WriterFrame
  /\ pc[p] = "idle"
  /\ \E s \in GivenSlugs, t \in PatchTitles, g \in PatchGoals,
        k \in BOOLEAN :
       loc' = [loc EXCEPT ![p] = [NoLoc EXCEPT !.op = "patchBySlug",
                                               !.oldSlug = s, !.title = t,
                                               !.goal = g, !.keep = k]]
  /\ Goto(p, "ps_select")
  /\ UNCHANGED <<dbVars, cacheVars, rowVars, resp>>

\* SELECT * FROM campaigns WHERE slug = ?; without a slug to look up no
\* other statement precedes the test for an empty updates object or the
\* UPDATE
PatchBySlugSelect(p) ==
  /\ WriterFrame
  /\ pc[p] = "ps_select"
  /\ IF ~SlugTaken(loc[p].oldSlug)
       THEN /\ Respond(p, Response(404))
            /\ loc' = [loc EXCEPT ![p] = Finished(loc[p])]
     ELSE IF loc[p].title = NoTitle /\ loc[p].goal = NoGoal
       THEN /\ Respond(p, Response(200))
            /\ loc' = [loc EXCEPT ![p] = Finished(loc[p])]
       ELSE LET c == CHOOSE c \in campaigns :
                       campaignRow[c].slug = loc[p].oldSlug
            IN /\ loc' = [loc EXCEPT ![p].id = c,
                                     ![p].oldTitle = campaignRow[c].title]
               /\ Goto(p, IF loc[p].title # NoTitle /\ ~loc[p].keep
                            THEN "ps_check" ELSE "ps_update")
               /\ resp' = resp
  /\ UNCHANGED <<dbVars, cacheVars, rowVars>>

\* the slug from the title; SELECT id FROM campaigns WHERE slug = ? AND
\* id != ?; a taken slug gets a random suffix and is not looked up again
PatchBySlugCheckSlug(p) ==
  /\ WriterFrame
  /\ pc[p] = "ps_check"
  /\ LET newSlug == InlineSlug(loc[p].title)
     IN IF SlugTakenByOther(newSlug, loc[p].id)
          THEN \E x \in RandomSuffixes :
                 loc' = [loc EXCEPT ![p].slug = newSlug \o <<"-">> \o x,
                                    ![p].hasSlug = TRUE]
          ELSE loc' = [loc EXCEPT ![p].slug = newSlug, ![p].hasSlug = TRUE]
  /\ Goto(p, "ps_update")
  /\ UNCHANGED <<dbVars, cacheVars, rowVars, resp>>

\* UPDATE campaigns SET <fields>, updated_at = ? WHERE id = ?, then the
\* SELECT of the updated row for the answer
PatchBySlugUpdate(p) ==
  /\ WriterFrame
  /\ pc[p] = "ps_update"
  /\ dbLock = NoProc
  /\ IF loc[p].hasSlug /\ SlugTakenByOther(loc[p].slug, loc[p].id)
       THEN /\ loc' = [loc EXCEPT
                         ![p] = Finished([loc[p] EXCEPT
                                            !.err = SlugUniqueViolation])]
            /\ Respond(p, Failure(loc[p].op, SlugUniqueViolation))
            /\ campaignRow' = campaignRow
       ELSE /\ campaignRow' =
                 [campaignRow EXCEPT
                    ![loc[p].id] = PatchedRow(@, loc[p], wrNow)]
            /\ loc' = [loc EXCEPT ![p] = Finished(loc[p])]
            /\ Respond(p, Response(200))
  /\ UNCHANGED <<dbVars, cacheVars, wrNow>>

\* Date.now() moves on.
WriterClockAdvances ==
  /\ WriterFrame
  /\ wrNow <= MaxWriterTicks
  /\ wrNow' = wrNow + 1
  /\ UNCHANGED <<mainVars, campaignRow>>

\* A statement of a PATCH handler rejects: the catch answers 500.
PatchStatementFails(p) ==
  /\ WriterFrame
  /\ pc[p] \in {"pi_select", "pi_slugs", "pi_check", "pi_regenerate",
                "pi_update", "ps_select", "ps_check", "ps_update"}
  /\ loc' = [loc EXCEPT ![p] = Finished([loc[p] EXCEPT !.err = "SQLITE_ERROR"])]
  /\ Respond(p, Failure(loc[p].op, "SQLITE_ERROR"))
  /\ UNCHANGED <<dbVars, cacheVars, rowVars>>

\* ---- GET /api/campaigns?wallet=W (src/app/api/campaigns/route.ts:17-62)
\* -> getCampaigns({walletAddress}) (src/unnamed/part_001:44-211)

\* SELECT ... FROM campaigns c WHERE c.wallet_address = ?
OwnerListingOf(w) ==
  [kind |-> "listing",
   rows |-> {[id |-> x,
              donation_count |-> Cardinality(DonationsOf(x, donations)),
              total_raised |-> SumAmounts(DonationsOf(x, donations)),
              funding_percentage |->
                FundingPercentage(SumAmounts(DonationsOf(x, donations)),
                                  campaignRow[x].goal)] :
             x \in {y \in campaigns : campaignRow[y].wallet_address = w}}]

\* campaignCache.get(cacheKey)
OwnerListStart(p) ==
  /\ WriterFrame
  /\ pc[p] = "idle"
  /\ \E w \in Wallets :
       IF campaignCache[OwnerListKey(w)] # Absent
         THEN /\ loc' = [loc EXCEPT ![p] = [NoLoc EXCEPT !.op = "ownerList",
                                                         !.wallet = w]]
              /\ Respond(p, [Response(200) EXCEPT
                                !.stats = campaignCache[OwnerListKey(w)],
                                !.source = "cache"])
         ELSE /\ loc' = [loc EXCEPT ![p] = [NoLoc EXCEPT !.op = "ownerList",
                                                         !.wallet = w]]
              /\ Goto(p, "ol_query")
              /\ resp' = resp
  /\ UNCHANGED <<dbVars, cacheVars, rowVars>>

\* db.execute(sqlQuery)
OwnerListQuery(p) ==
  /\ WriterFrame
  /\ pc[p] = "ol_query"
  /\ loc' = [loc EXCEPT ![p].read = OwnerListingOf(loc[p].wallet)]
  /\ Goto(p, "ol_store")
  /\ UNCHANGED <<dbVars, cacheVars, rowVars, resp>>

\* campaignCache.set(cacheKey, campaigns); return campaigns
OwnerListStore(p) ==
  /\ WriterFrame
  /\ pc[p] = "ol_store"
  /\ campaignCache' =
       [campaignCache EXCEPT ![OwnerListKey(loc[p].wallet)] = loc[p].read]
  /\ Respond(p, [Response(200) EXCEPT !.stats = loc[p].read,
                                      !.source = "db"])
  /\ loc' = [loc EXCEPT ![p] = Finished(loc[p])]
  /\ UNCHANGED <<dbVars, donationCache, rowVars>>

WriterNext ==
  \/ WriterClockAdvances
  \/ \E p \in Procs :
    \/ CreateStart(p) \/ CreateCheckSlug(p)
    \/ CounterCreateStart(p) \/ CounterCreateCheckSlug(p)
    \/ CounterCreateNextSlug(p)
    \/ RandomCreateStart(p) \/ RandomCreateCheckSlug(p)
    \/ CreateFindUser(p) \/ CreateInsertUser(p) \/ CreateInsertCampaign(p)
    \/ CreateStatementFails(p)
    \/ PatchByIdStart(p) \/ PatchByIdSelect(p) \/ PatchByIdListSlugs(p)
    \/ PatchByIdCheckSlug(p) \/ PatchByIdRegenerate(p) \/ PatchByIdUpdate(p)
    \/ PatchBySlugStart(p) \/ PatchBySlugSelect(p) \/ PatchBySlugCheckSlug(p)
    \/ PatchBySlugUpdate(p) \/ PatchStatementFails(p)

\* The three campaign POSTs next to the listing of a wallet's campaigns.
OwnerListNext ==
  \E p \in Procs :
    \/ CreateStart(p) \/ CreateCheckSlug(p)
    \/ CounterCreateStart(p) \/ CounterCreateCheckSlug(p)
    \/ CounterCreateNextSlug(p)
    \/ RandomCreateStart(p) \/ RandomCreateCheckSlug(p)
    \/ CreateFindUser(p) \/ CreateInsertUser(p) \/ CreateInsertCampaign(p)
    \/ CreateStatementFails(p)
    \/ OwnerListStart(p) \/ OwnerListQuery(p) \/ OwnerListStore(p)

\* The handlers that find or create a user row, side by side: the three
\* campaign POSTs and POST /api/donations.
UsersNext ==
  \E p \in Procs :
    \/ CreateStart(p) \/ CreateCheckSlug(p)
    \/ CounterCreateStart(p) \/ CounterCreateCheckSlug(p)
    \/ CounterCreateNextSlug(p)
    \/ RandomCreateStart(p) \/ RandomCreateCheckSlug(p)
    \/ CreateFindUser(p) \/ CreateInsertUser(p) \/ CreateInsertCampaign(p)
    \/ CreateStatementFails(p)
    \/ RecordStart(p) \/ RecordBegin(p) \/ RecordCheckCampaign(p)
    \/ RecordFindUser(p) \/ RecordInsertUser(p) \/ RecordInsertDonation(p)
    \/ RecordCommit(p) \/ RecordStatementFails(p) \/ RecordRollback(p)
    \/ RecordInvalidate(p) \/ SummaryQuery(p) \/ SummaryQueryFails(p)
    \/ SummaryStore(p)

(***************************************************************************)
(* The rate limiter of the middleware (src/middleware.ts)                  *)
(***************************************************************************)

RATE_LIMIT_RESET_TIME == 60000
MAX_REQUESTS_PER_MINUTE == 500
MAX_WRITE_REQUESTS_PER_MINUTE == 100

\* How often the limiter's clock advances.
MaxLimiterTicks == 2
\* The count up to which the model lets a client send further requests.
MaxCount == 502

\* x-forwarded-for / x-real-ip of the requests.
ClientIps == {"ip1"}
\* request.method of the requests.
Methods == {"GET", "POST"}
WriteMethods == {"POST", "PUT", "DELETE", "PATCH"}
\* By how much Date.now() moves between two requests.
LimiterClockSteps == {1, RATE_LIMIT_RESET_TIME}

NoCount == [count |-> 0, resetTime |-> -1]
NoRequest ==
  [limited |-> FALSE, ip |-> "none", method |-> "none", status |-> "none",
   newWindow |-> FALSE, expired |-> FALSE]

LimiterIdle ==
  /\ ipRequestCounts = [ip \in ClientIps |-> NoCount]
  /\ rlNow = 0
  /\ rlTicks = 0
  /\ rlSeq = [ip \in ClientIps |-> 0]
  /\ rlLast = NoRequest

LimiterInit == LimiterIdle

\* ipRequestCounts.has(ip)
HasCount(counts, ip) == counts[ip] # NoCount

\* currentTime > data.resetTime
WindowOver(data, currentTime) == currentTime > data.resetTime

IsWriteRequest(method) == method \in WriteMethods

MaxRequests(method) ==
  IF IsWriteRequest(method) THEN MAX_WRITE_REQUESTS_PER_MINUTE
  ELSE MAX_REQUESTS_PER_MINUTE

\* data.count > maxRequests, one request late.
ExceedsLimitLate(count, maxRequests) == count > maxRequests + 1

\* data.count > maxRequests
ExceedsLimit(count, maxRequests) == count > maxRequests

\* The entry of ip once the request is counted: a first request and a
\* request after resetTime start at 1, any other adds one.
Counted(counts, ip, currentTime) ==
  IF ~HasCount(counts, ip) \/ WindowOver(counts[ip], currentTime)
    THEN [count |-> 1, resetTime |-> currentTime + RATE_LIMIT_RESET_TIME]
    ELSE [count |-> counts[ip].count + 1,
          resetTime |-> counts[ip].resetTime]

\* The 429 is returned in the branch that added one, and nowhere else.
Rejected(counts, ip, method, currentTime) ==
  /\ HasCount(counts, ip)
  /\ ~WindowOver(counts[ip], currentTime)
  /\ ExceedsLimit(counts[ip].count + 1, MaxRequests(method))

\* The clean-up loop: every entry whose resetTime lies before t is deleted.
CleanedUp(counts, t) ==
  [ip \in ClientIps |->
     IF HasCount(counts, ip) /\ t > counts[ip].resetTime THEN NoCount
     ELSE counts[ip]]

LimiterClockAdvances ==
  /\ rlTicks < MaxLimiterTicks
  /\ \E d \in LimiterClockSteps : rlNow' = rlNow + d
  /\ rlTicks' = rlTicks + 1
  /\ rlLast' = NoRequest
  /\ UNCHANGED <<ipRequestCounts, rlSeq>>
  /\ LimiterFrame

\* A request that is not rate limited (development, or the bypass cookie).
MiddlewareUnlimited ==
  /\ \E ip \in ClientIps, method \in Methods :
       rlLast' = [limited |-> FALSE, ip |-> ip, method |-> method,
                  status |-> "next", newWindow |-> FALSE,
                  expired |-> FALSE]
  /\ UNCHANGED <<ipRequestCounts, rlNow, rlTicks, rlSeq>>
  /\ LimiterFrame

\* A rate-limited request: it is counted, answered 429 when the count
\* exceeds the limit of its method, and otherwise passed on, after the
\* clean-up when Math.random() asks for it. The clean-up reads the clock
\* again, which may have moved on by then.
MiddlewareLimited ==
  /\ \E ip \in ClientIps, method \in Methods, cleanUp \in BOOLEAN,
        late \in {0, 1} :
       LET data == Counted(ipRequestCounts, ip, rlNow)
           newWindow == data.count = 1
           rejected == Rejected(ipRequestCounts, ip, method, rlNow)
           counted == [ipRequestCounts EXCEPT ![ip] = data]
       IN /\ HasCount(ipRequestCounts, ip) =>
               ipRequestCounts[ip].count < MaxCount
          /\ late = 1 => (cleanUp /\ ~rejected /\ rlTicks < MaxLimiterTicks)
          /\ ipRequestCounts' =
               IF cleanUp /\ ~rejected THEN CleanedUp(counted, rlNow + late)
               ELSE counted
          /\ rlNow' = rlNow + late
          /\ rlTicks' = rlTicks + late
          /\ rlSeq' = [rlSeq EXCEPT ![ip] = IF newWindow THEN 1 ELSE @ + 1]
          /\ rlLast' =
               [limited |-> TRUE, ip |-> ip, method |-> method,
                status |-> IF rejected THEN "429" ELSE "next",
                newWindow |-> newWindow,
                expired |-> HasCount(ipRequestCounts, ip)
                              /\ WindowOver(ipRequestCounts[ip], rlNow)]
  /\ LimiterFrame

LimiterNext ==
  \/ LimiterClockAdvances
  \/ MiddlewareUnlimited
  \/ MiddlewareLimited

(***************************************************************************)
(* Specifications                                                          *)
(***************************************************************************)

InitRetry ==
  RetryInit /\ TxIdle /\ CacheIdle /\ MainIdle /\ SummaryIdle /\ SlugIdle
    /\ RowsIdle /\ LimiterIdle
SpecRetry == InitRetry /\ [][RetryNext]_vars

InitTx ==
  TxInit /\ RetryIdle /\ CacheIdle /\ MainIdle /\ SummaryIdle /\ SlugIdle
    /\ RowsIdle /\ LimiterIdle
SpecTx == InitTx /\ [][TxNext]_vars

InitCache ==
  CacheInit /\ RetryIdle /\ TxIdle /\ MainIdle /\ SummaryIdle /\ SlugIdle
    /\ RowsIdle /\ LimiterIdle
SpecCache == InitCache /\ [][CacheNext]_vars

InitCollections ==
  CacheInit /\ RetryIdle /\ TxIdle /\ MainIdle /\ SummaryIdle /\ SlugIdle
    /\ RowsIdle /\ LimiterIdle
SpecCollections == InitCollections /\ [][CollectionNext]_vars

InitFetch ==
  CacheInit /\ RetryIdle /\ TxIdle /\ MainIdle /\ SummaryIdle /\ SlugIdle
    /\ RowsIdle /\ LimiterIdle
SpecFetch == InitFetch /\ [][FetchNext]_vars


InitMain ==
  MainInit /\ RetryIdle /\ TxIdle /\ CacheIdle /\ SummaryIdle /\ SlugIdle
    /\ RowsInit /\ LimiterIdle
Spec == InitMain /\ [][MainNext]_vars

InitSummary ==
  SummaryInit /\ RetryIdle /\ TxIdle /\ CacheIdle /\ MainIdle /\ SlugIdle
    /\ RowsIdle /\ LimiterIdle
SpecSummary == InitSummary /\ [][SummaryNext]_vars

InitSlug ==
  SlugInit /\ RetryIdle /\ TxIdle /\ CacheIdle /\ MainIdle /\ SummaryIdle
    /\ RowsIdle /\ LimiterIdle
SpecSlug == InitSlug /\ [][SlugNext]_vars

InitWriters ==
  MainInit /\ RowsInit /\ RetryIdle /\ TxIdle /\ CacheIdle /\ SummaryIdle
    /\ SlugIdle /\ LimiterIdle
SpecWriters == InitWriters /\ [][WriterNext]_vars

InitUsers ==
  MainInit /\ RowsInit /\ RetryIdle /\ TxIdle /\ CacheIdle /\ SummaryIdle
    /\ SlugIdle /\ LimiterIdle
SpecUsers == InitUsers /\ [][UsersNext]_vars

InitOwnerLists ==
  MainInit /\ RowsInit /\ RetryIdle /\ TxIdle /\ CacheIdle /\ SummaryIdle
    /\ SlugIdle /\ LimiterIdle
SpecOwnerLists == InitOwnerLists /\ [][OwnerListNext]_vars

InitRateLimit ==
  LimiterInit /\ RetryIdle /\ TxIdle /\ CacheIdle /\ MainIdle /\ SummaryIdle
    /\ SlugIdle /\ RowsIdle
SpecRateLimit == InitRateLimit /\ [][LimiterNext]_vars

(***************************************************************************)
(* Properties of the donation write path                                   *)
(***************************************************************************)

RowsWithSignature(sig) == {d \in donations : d.transaction_signature = sig}

\* C1: after any interleaving of POST /api/donations calls, the donations
\* table holds at most one row per transaction_signature.
C1_OneRowPerSignature ==
  \A d1, d2 \in donations :
    d1.transaction_signature = d2.transaction_signature => d1 = d2

\* A request that arrived when a donation with its signature was already
\* committed, ran to its end against an existing campaign without a storage
\* failure, and whose earlier donation is still in the table.
IsReplay(p) ==
  /\ pc[p] = "done"
  /\ loc[p].op \in {"record", "legacy"}
  /\ loc[p].replayOf # "none"
  /\ resp[p].status \notin {400, 404}
  /\ loc[p].err \notin {"SQLITE_ERROR", "summary query failed"}
  /\ \E d \in RowsWithSignature(loc[p].sig) : d.id = loc[p].replayOf

\* C2: recording is idempotent per signature: a replay answers with the
\* success receipt of the donation already recorded, and the table holds
\* exactly one row with that signature.
C2_ReplayReturnsExistingReceipt ==
  \A p \in Procs :
    IsReplay(p) =>
      /\ resp[p].status = 200
      /\ resp[p].donation_id = loc[p].replayOf
      /\ Cardinality(RowsWithSignature(loc[p].sig)) = 1

\* A request to record a donation that failed inside its transaction.
FailedInTransaction(p) ==
  /\ pc[p] = "done"
  /\ loc[p].op \in {"record", "legacy"}
  /\ loc[p].err \in {"Campaign not found", "SQLITE_CONSTRAINT", "SQLITE_ERROR",
                    WalletUniqueViolation}

\* C3: after a failed record, the user row that call created does not exist.
C3_FailedRecordLeavesNoDonor ==
  \A p \in Procs :
    (FailedInTransaction(p) /\ loc[p].newUser) =>
      UserRow(loc[p].userId, loc[p].wallet) \notin users

\* The cache keys still present whose value depends on the donations of
\* campaign c by wallet w: the wallet's donations, the campaign's summary,
\* its donation pages, its by-id listing, and the listing of all campaigns
\* when it carries c's totals.
StillCached(c, w, dc, cc) ==
  {k \in {WalletKey(w), SummaryKey(c), PageKey(c)} : dc[k] # Absent}
    \cup {k \in {ByIdKey(c)} : cc[k] # Absent}
    \cup {k \in {ListKey} : cc[k] # Absent /\ \E r \in cc[k].rows : r.id = c}

\* C9: when POST /api/donations has done its cache deletions after a commit
\* for campaign C, no cache key whose value depends on C's donations is left.
C9_DependentKeysDeleted ==
  [][\A p \in Procs :
       (pc[p] = "rec_invalidate" /\ pc'[p] # "rec_invalidate") =>
         StillCached(loc[p].campaign, loc[p].wallet, donationCache',
                     campaignCache') = {}]_vars

RecordSucceeded(p) ==
  /\ pc[p] = "done"
  /\ loc[p].op = "record"
  /\ resp[p].status = 200

\* C10 as stated: the aggregates a successful record returns always include
\* the donation just recorded.
C10_StatsIncludeDonation ==
  \A p \in Procs : RecordSucceeded(p) => loc[p].id \in resp[p].stats.ids

\* C10: the aggregates a successful record returns are read from the
\* database after the commit, never from the cache, and they include the
\* donation just recorded unless a campaign delete removed the campaign's
\* donations between the commit and the read.
C10_StatsReadAfterCommit ==
  \A p \in Procs :
    RecordSucceeded(p) =>
      /\ resp[p].source = "db"
      /\ (loc[p].id \in resp[p].stats.ids \/ loc[p].erased)

\* A second successful record for a campaign whose summary was cached by an
\* earlier one, answering with both donations.
C10_Witness ==
  \E p \in Procs :
    /\ RecordSucceeded(p)
    /\ resp[p].source = "db"
    /\ loc[p].id \in resp[p].stats.ids
    /\ resp[p].stats.donation_count = 2


(***************************************************************************)
(* Properties of the campaign writers                                      *)
(***************************************************************************)

\* C12: after any sequence of create and update calls every stored
\* campaign has a non-empty slug and no two stored campaigns share a slug.
C12_SlugsNonEmptyAndUnique ==
  \A c \in campaigns :
    /\ campaignRow[c].slug # << >>
    /\ \A d \in campaigns \ {c} : campaignRow[d].slug # campaignRow[c].slug

\* The handlers that create a campaign, and those that allocate its slug.
CreateOps == {"create", "createCounter", "createRandom"}
AllocatingOps == {"createCounter", "createRandom", "patchById", "patchBySlug"}

\* C14: every slug an allocator hands to the INSERT or UPDATE of a create
\* or rename differs, at the moment it is written, from the slug of every
\* other campaign: no such write is rejected by the UNIQUE constraint of
\* campaigns.slug.
C14_WrittenSlugIsFree ==
  \A p \in Procs :
    (pc[p] = "done" /\ loc[p].op \in AllocatingOps) =>
      loc[p].err # SlugUniqueViolation

\* C15: a create that passed the slug pre-check and lost the race for the
\* slug to a concurrent create inserts no row and answers 409.
C15_LoserGetsDuplicateSlug ==
  \A p \in Procs :
    (pc[p] = "done" /\ loc[p].op = "create"
       /\ loc[p].err = SlugUniqueViolation) =>
      /\ NewCampaignId(p) \notin campaigns
      /\ resp[p].status = 409

\* C16: a create that failed leaves neither the user row nor the campaign
\* row it wrote.
C16_FailedCreateLeavesNoRows ==
  \A p \in Procs :
    (pc[p] = "done" /\ loc[p].op \in CreateOps /\ loc[p].err # "none") =>
      /\ NewCampaignId(p) \notin campaigns
      /\ loc[p].newUser => UserRow(loc[p].userId, loc[p].wallet) \notin users

\* C20: the users table never holds two rows with the same wallet address.
C20_OneUserRowPerWallet ==
  \A u \in users : \A v \in users :
    u.wallet_address = v.wallet_address => u = v

\* A create and a record saw the same new wallet address; the record
\* inserted its user row and the INSERT of the create was rejected.
C20_Witness ==
  \E p \in Procs, q \in Procs :
    /\ loc[p].op \in CreateOps
    /\ loc[p].err = WalletUniqueViolation
    /\ loc[q].op = "record"
    /\ loc[q].newUser
    /\ loc[q].wallet = loc[p].wallet
    /\ UserRow(loc[q].userId, loc[q].wallet) \in users

(***************************************************************************)
(* Properties of the campaign delete                                       *)
(***************************************************************************)

DeleteOps == {"delete", "deleteById"}

\* C17: no step of a delete called by a wallet that does not own the
\* campaign changes the campaigns or the donations table, and such a
\* delete never answers with success; this for both DELETE handlers.
C17_NonOwnerDeleteChangesNothing ==
  [][\A p \in Procs :
       (/\ loc[p].op \in DeleteOps
        /\ pc'[p] # pc[p]
        /\ loc[p].campaign \in campaigns
        /\ OwnerOf[loc[p].campaign] # loc[p].wallet) =>
         /\ campaigns' = campaigns
         /\ donations' = donations
         /\ pc'[p] = "done" => resp'[p].status # 200]_vars

\* C18: no donation row references a campaign id that has no campaign row.
C18_NoOrphanDonations == \A d \in donations : d.campaign_id \in campaigns

\* C19: when the DELETE of the campaign row fails, the donation rows the
\* same call deleted before are present again.
C19_FailedDeleteKeepsDonations ==
  [][\A p \in Procs :
       (/\ loc[p].op = "delete"
        /\ pc[p] = "del_campaign"
        /\ pc'[p] = "done"
        /\ resp'[p].status = 500) =>
         loc[p].removed \subseteq donations']_vars

(***************************************************************************)
(* Properties of the record calls: users, missing campaigns, lifecycle     *)
(***************************************************************************)

RecordOps == {"record", "legacy"}

\* C21: a record call whose INSERT INTO users is rejected by the UNIQUE
\* constraint of wallet_address goes on with the existing user row: no
\* record call ends with that rejection as its error.
C21_UserConflictRecovered ==
  \A p \in Procs :
    (pc[p] = "done" /\ loc[p].op \in RecordOps) =>
      loc[p].err # WalletUniqueViolation

\* A record call that is looking up, or has looked up, its campaign and
\* found no row.
CampaignMissingSeen(p) ==
  /\ loc[p].op \in RecordOps
  /\ \/ pc[p] \in {"rec_campaign", "leg_campaign"}
        /\ loc[p].campaign \notin campaigns
     \/ pc[p] = "rec_rollback" /\ loc[p].err = "Campaign not found"

\* C22: a record call for a campaign id without a campaign row has written
\* nothing when it looks the campaign up, and from there on it changes no
\* table and no cache and ends with 404 'Campaign not found' (500 if the
\* lookup itself fails).
C22_MissingCampaignChangesNothing ==
  [][\A p \in Procs :
       (CampaignMissingSeen(p) /\ pc'[p] # pc[p]) =>
         /\ ~loc[p].newUser /\ loc[p].pendUsers = {} /\ loc[p].pendDons = {}
         /\ users' = users /\ donations' = donations
         /\ campaigns' = campaigns
         /\ donationCache' = donationCache /\ campaignCache' = campaignCache
         /\ pc'[p] \in {"done", "rec_rollback"}
         /\ pc'[p] = "done" =>
              /\ resp'[p].status \in {404, 500}
              /\ loc[p].err = "Campaign not found" => resp'[p].status = 404
         /\ pc'[p] = "rec_rollback" =>
              loc'[p].err \in {"Campaign not found", "SQLITE_ERROR"}]_vars

\* A record call for the missing campaign c2 was answered with 404 while
\* the tables hold what another call wrote.
C22_Witness ==
  \E p \in Procs :
    /\ pc[p] = "done"
    /\ loc[p].op = "record"
    /\ loc[p].err = "Campaign not found"
    /\ resp[p].status = 404
    /\ donations # {}

(***************************************************************************)
(* Properties of the campaign update                                       *)
(***************************************************************************)

PatchOps == {"patchById", "patchBySlug"}

\* The step in which request p runs its UPDATE and the UPDATE succeeds.
PatchWrites(p) ==
  /\ loc[p].op \in PatchOps
  /\ pc[p] \in {"pi_update", "ps_update"}
  /\ pc'[p] = "done"
  /\ resp'[p].status = 200

\* The campaign a PATCH is about does not exist when it is looked up.
PatchTargetMissing(p) ==
  \/ pc[p] = "pi_select" /\ loc[p].id \notin campaigns
  \/ pc[p] = "ps_select" /\ ~SlugTaken(loc[p].oldSlug)

C24_SlugKeptUnlessTitleChanges ==
  [][\A p \in Procs :
       (/\ PatchWrites(p)
        /\ \/ loc[p].keep
           \/ loc[p].title = NoTitle
           \/ loc[p].title = loc[p].oldTitle) =>
         campaignRow'[loc[p].id].slug = campaignRow[loc[p].id].slug]_vars

\* C25: a recorded donation row never changes (no step leaves the table
\* with another row under its id), and it leaves the table only in the
\* DELETE FROM donations of a campaign delete for its campaign.
C25_RecordedDonationIsFinal ==
  [][\A d \in donations :
       /\ \A e \in donations' : e.id = d.id => e = d
       /\ d \notin donations' =>
            \E p \in Procs :
              /\ loc[p].op = "delete"
              /\ pc[p] = "del_donations"
              /\ pc'[p] = "del_campaign"
              /\ loc[p].campaign = d.campaign_id]_vars

\* A recorded donation was removed by the delete of its campaign.
C25_Witness ==
  \E p \in Procs :
    /\ loc[p].op = "delete"
    /\ pc[p] = "del_campaign"
    /\ loc[p].removed # {}
    /\ loc[p].removed \cap donations = {}

(***************************************************************************)
(* Properties of the cache invalidation of the campaign writers            *)
(***************************************************************************)

\* C26: when DELETE /api/campaigns answers with success, no key of
\* campaignCache or donationCache that contains the campaign's id holds an
\* entry.
C26_DeleteInvalidatesCampaignKeys ==
  [][\A p \in Procs :
       (/\ loc[p].op \in DeleteOps
        /\ pc[p] \in {"del_campaign", "dbi_campaign"}
        /\ pc'[p] = "done"
        /\ resp'[p].status = 200) =>
         /\ \A k \in CampaignCacheKeys :
              KeyIncludes(k, loc[p].campaign) => campaignCache'[k] = Absent
         /\ \A k \in DonationCacheKeys :
              KeyIncludes(k, loc[p].campaign) =>
                donationCache'[k] = Absent]_vars

\* C27: once a create by wallet W has answered with success, no listing of
\* W's campaigns is served from the cache without the new campaign.
C27_CreateInvalidatesOwnerListings ==
  \A p \in Procs :
    (/\ pc[p] = "done"
     /\ loc[p].op \in CreateOps
     /\ resp[p].status \in {200, 201}) =>
      LET cached == campaignCache[OwnerListKey(loc[p].wallet)]
      IN cached # Absent => \E r \in cached.rows : r.id = loc[p].id

(***************************************************************************)
(* Properties of executeWithRetry for every maxRetries                     *)
(***************************************************************************)

\* C35: for every value of maxRetries, a call that has ended has run the
\* statement at least once, and a call that has thrown has thrown the error
\* of its last attempt, never undefined.
C35_RunsOnceAndThrowsLastError ==
  rtPc \in {"returned", "thrown"} =>
    /\ Len(execLog) >= 1
    /\ rtPc = "thrown" =>
         /\ rtOutcome # Undefined
         /\ rtOutcome = execLog[Len(execLog)]

(***************************************************************************)
(* Properties of executeInTransaction                                      *)
(***************************************************************************)

\* C32: the caller receives a result only from a call whose commit has
\* succeeded, and then the callback's result; when the commit fails, one
\* rollback is attempted and the caller receives the commit error and no
\* result; a call that has ended has either returned after its commit or
\* thrown an error, never both and never neither.
C32_ResultOnlyAfterCommit ==
  /\ txOutcome.from = "result" =>
       /\ txPc = "returned"
       /\ txOutcome = txCallback
       /\ txError = NoValue
       /\ txPending = {}
  /\ (txError.from = "commit" /\ txPc # "rollback") =>
       /\ txPc = "thrown"
       /\ txOutcome = txError
       /\ Len(txRollback) = 1
  /\ txPc = "returned" => txOutcome.from = "result"
  /\ txPc = "thrown" => txOutcome.from \in {"begin", "callback", "commit"}
  /\ txPc \notin {"returned", "thrown"} => txOutcome = NoValue

\* The commit failed, the rollback failed too, and the call has ended.
C32_Witness ==
  /\ txPc = "thrown"
  /\ txError.from = "commit"
  /\ txCallback.from = "result"
  /\ Len(txRollback) = 1
  /\ txRollback[1].from = "rollback"

(***************************************************************************)
(* Properties of class Cache                                               *)
(***************************************************************************)

\* C34: the eviction callback of set(key, v1, ttl) removes only the entry
\* that set wrote: when it removes an entry, the entry holds v1.
C34_TimerRemovesOnlyItsOwnEntry ==
  [][\A t \in timers \ timers' :
       (cache[t.key] # NoEntry /\ cache'[t.key] = NoEntry) =>
         cache[t.key].data = t.data]_vars

\* C37: a getOrFetch call made while the cache holds a non-expired entry
\* for its key does not invoke the fetcher and returns the cached value; a
\* call made on a miss invokes the fetcher once and throws exactly when the
\* fetcher threw.
C37_FetcherOnlyOnMiss ==
  fetching.pc # "idle" =>
    /\ fetching.held # "null" =>
         /\ fetching.invoked = 0
         /\ fetching.pc = "returned"
         /\ fetching.outcome = fetching.held
    /\ fetching.held = "null" =>
         /\ fetching.invoked = 1
         /\ fetching.pc = "thrown" <=> fetching.outcome = "error"

\* C31: updateCollectionItem on a key whose collection is absent or expired
\* leaves what the cache holds unchanged when itemData is a function, and
\* when itemData is a value the cache afterwards holds under the key the
\* collection of exactly that value and holds the other keys unchanged.
C31_UpdateOfAbsentCollection ==
  (lastUpdate # NoUpdate /\ ~lastUpdate.found) =>
    /\ \A k \in CacheKeys \ {lastUpdate.key} :
         Held(cache, k, now) = lastUpdate.before[k]
    /\ Held(cache, lastUpdate.key, now) =
         IF lastUpdate.itemData.kind = "function"
           THEN lastUpdate.before[lastUpdate.key]
           ELSE [present |-> TRUE, data |-> <<lastUpdate.itemData.item>>]

\* A value has just seeded the collection of a key that held none, after
\* time had passed.
C31_Witness ==
  /\ lastUpdate # NoUpdate
  /\ ~lastUpdate.found
  /\ lastUpdate.itemData.kind = "value"
  /\ cache[lastUpdate.key] =
       [data |-> <<lastUpdate.itemData.item>>, timestamp |-> now]
  /\ now > DefaultDuration

(***************************************************************************)
(* Properties of the slug normalization                                    *)
(***************************************************************************)

\* The characters of a slug: lower-case letters, digits and the hyphen.
SlugChars == LowerCase \cup {"k", "q"} \cup DigitChars \cup {"-"}

WellFormedSlug(s) ==
  /\ Len(s) >= 3
  /\ \A i \in 1..Len(s) : s[i] \in SlugChars
  /\ \A i \in 1..(Len(s) - 1) : ~(s[i] = "-" /\ s[i + 1] = "-")
  /\ s[1] # "-"
  /\ s[Len(s)] # "-"

\* C29: for every non-empty title, the slug that a create path or a rename
\* path allocates is lower-case, holds only characters of [a-z0-9-], has no
\* two adjacent hyphens, no leading and no trailing hyphen, and is at least
\* three characters long.
C29_AllocatedSlugIsNormalized ==
  (slPc \in {"generateSlug", "allocate", "rename"} /\ slTitle # << >>) =>
    WellFormedSlug(slResult)

\* generateSlug alone keeps the normal form.
GenerateSlugIsNormalized ==
  (slPc = "generateSlug" /\ slTitle # << >>) => WellFormedSlug(slResult)

(***************************************************************************)
(* Properties of the failure responses                                     *)
(***************************************************************************)

\* The messages of the errors the database raises.
StorageMessages ==
  {"SQLITE_ERROR", "SQLITE_CONSTRAINT", SlugUniqueViolation,
   WalletUniqueViolation, "summary query failed"}

\* C30: two requests to the same handler of the campaign writer or of the
\* donation recorder that both end in a storage failure get the same
\* response, whatever the messages of the two failures.
C30_FailureBodyHidesStorageMessage ==
  \A p, q \in Procs :
    (/\ pc[p] = "done" /\ pc[q] = "done"
     /\ loc[p].op = loc[q].op
     /\ loc[p].op \in CreateOps \cup RecordOps \cup PatchOps
     /\ loc[p].err \in StorageMessages
     /\ loc[q].err \in StorageMessages) =>
      resp[p] = resp[q]

\* The donation recorder alone answers every storage failure alike.
RecorderFailureBodyHidesMessage ==
  \A p, q \in Procs :
    (/\ pc[p] = "done" /\ pc[q] = "done"
     /\ loc[p].op = loc[q].op
     /\ loc[p].op \in RecordOps
     /\ loc[p].err \in StorageMessages
     /\ loc[q].err \in StorageMessages) =>
      resp[p] = resp[q]

(***************************************************************************)
(* Properties of the summary cache under concurrent records                *)
(***************************************************************************)

\* C33: when the only requests so far are calls of POST /api/donations and
\* none of them is in flight, a cached summary of a campaign equals the
\* aggregate over the committed donations of that campaign.
C33_CachedSummaryIsCurrent ==
  (\A p \in Procs :
     pc[p] \in {"idle", "done"} /\ loc[p].op \in {"none", "record"})
    => \A c \in CampaignIds :
         donationCache[SummaryKey(c)] # Absent =>
           donationCache[SummaryKey(c)] = SummaryOf(c, donations)

\* The positions of POST /api/donations after executeInTransaction returned.
AfterCommit == {"rec_invalidate", "sum_query", "sum_store"}
\* The errors of a call that failed in its transaction.
TransactionFailures ==
  {"Campaign not found", "SQLITE_ERROR", "SQLITE_CONSTRAINT",
   WalletUniqueViolation}

\* C36: a step of POST /api/donations changes a cache only after the
\* transaction of the call has committed, and a call that ends with a
\* validation error, with 'Campaign not found' or with a failure of its
\* transaction ends before that point: none of its steps changed a cache.
C36_FailedRecordLeavesCaches ==
  [][\A p \in Procs :
       (pc'[p] # pc[p] /\ "record" \in {loc[p].op, loc'[p].op}) =>
         /\ pc[p] \notin AfterCommit => cacheVars' = cacheVars
         /\ pc[p] \in AfterCommit =>
              /\ loc[p].err = "none"
              /\ loc[p].pendDons = {}
         /\ (pc'[p] = "done"
               /\ \/ resp'[p].status \in {400, 404}
                  \/ loc'[p].err \in TransactionFailures) =>
              pc[p] \notin AfterCommit]_vars

\* A call has failed in its transaction while a cache held an entry.
C36_Witness ==
  \E p \in Procs :
    /\ pc[p] = "done"
    /\ loc[p].op = "record"
    /\ loc[p].err \in TransactionFailures
    /\ \/ \E k \in DonationCacheKeys : donationCache[k] # Absent
       \/ \E k \in CampaignCacheKeys : campaignCache[k] # Absent

(***************************************************************************)
(* Properties of the aggregates                                            *)
(***************************************************************************)

\* C28: the summary of a campaign carries the donation count, the total
\* raised, the largest, the smallest and the average donation and the
\* funding percentage, which is min(round(total / goal * 100), 100) when the
\* goal is positive and 0 otherwise, an integer in 0..100.
C28_SummaryCarriesFundingPercentage ==
  \A c \in CampaignIds :
    LET s == donationCache[SummaryKey(c)]
        goal == campaignRow[c].goal
    IN s # Absent =>
         /\ {"donation_count", "total_raised", "largest_donation",
             "smallest_donation", "average_donation",
             "funding_percentage"} \subseteq DOMAIN s
         /\ s.funding_percentage \in 0..100
         /\ s.funding_percentage =
              IF goal > 0
                THEN Min(RoundDiv(s.total_raised * 100, goal), 100)
                ELSE 0

\* The listing's funding percentage follows the same formula.
ListingPercentageAsStated ==
  \A k \in CampaignCacheKeys :
    campaignCache[k] # Absent =>
      \A r \in campaignCache[k].rows :
        /\ r.funding_percentage \in 0..100
        /\ r.funding_percentage =
             IF campaignRow[r.id].goal > 0
               THEN Min(RoundDiv(r.total_raised * 100,
                                 campaignRow[r.id].goal), 100)
               ELSE 0


(***************************************************************************)
(* Properties of the rate limiter                                          *)
(***************************************************************************)

\* C38: while rate limiting applies, the count of a client IP is the number
\* of requests it sent since its window began; an admitted request is among
\* the first MAX_REQUESTS_PER_MINUTE requests of its window and an admitted
\* write request among the first MAX_WRITE_REQUESTS_PER_MINUTE, so that no
\* window admits more than 500 requests or more than 100 writes; a request
\* beyond the limit of its method is answered 429; and a request that finds
\* no entry, or arrives after resetTime, is admitted and starts a window
\* with count 1.
C38_WindowLimits ==
  /\ \A ip \in ClientIps :
       HasCount(ipRequestCounts, ip) => ipRequestCounts[ip].count = rlSeq[ip]
  /\ rlLast.limited =>
       /\ rlLast.status = "next" =>
            /\ rlSeq[rlLast.ip] <= MAX_REQUESTS_PER_MINUTE
            /\ rlLast.method \in WriteMethods =>
                 rlSeq[rlLast.ip] <= MAX_WRITE_REQUESTS_PER_MINUTE
       /\ rlSeq[rlLast.ip] > MaxRequests(rlLast.method) =>
            rlLast.status = "429"
       /\ rlLast.expired => rlLast.newWindow
       /\ rlLast.newWindow =>
            /\ rlLast.status = "next"
            /\ rlSeq[rlLast.ip] = 1
            /\ HasCount(ipRequestCounts, rlLast.ip) =>
                 /\ ipRequestCounts[rlLast.ip].count = 1
                 /\ ipRequestCounts[rlLast.ip].resetTime
                      >= rlNow + RATE_LIMIT_RESET_TIME - 1

\* The hundred-and-first request of a window, a write, was answered 429.
C38_Witness ==
  /\ rlLast.limited
  /\ rlLast.method = "POST"
  /\ rlLast.status = "429"
  /\ rlSeq[rlLast.ip] = MAX_WRITE_REQUESTS_PER_MINUTE + 1

=============================================================================
